---------------------------- MODULE Spec2Model ----------------------------
(***************************************************************************)
(* Model of the Plasticity bridge add-on: the scene synchronization        *)
(* handler (handler.py), the connection/list/refacet commands (ui.py),     *)
(* the Live Refacet polling loop (operators.py) and the refacet preset     *)
(* persistence (__init__.py).                                              *)
(*                                                                         *)
(* Numbers are fixed point: tolerances, angles and widths are counted in   *)
(* units of 0.0001, the density factor in units of 0.01.                   *)
(***************************************************************************)
EXTENDS Integers, Sequences, FiniteSets, TLC

(***************************************************************************)
(* Enumerations of handler.py                                              *)
(***************************************************************************)
SOLID == 0
SHEET == 1
WIRE == 2
GROUP == 5
EMPTY == 6

ITEM_SCOPE == "ITEM"
GROUP_SCOPE == "GROUP"

(***************************************************************************)
(* Bounds of the model                                                     *)
(***************************************************************************)
MaxNodes == 3          \* nodes in the add and update lists of one event, together
MaxVersion == 4        \* cap of a mesh's plasticity_groups_version counter
MaxObjects == 2        \* host objects that can exist at once (bpy.data.objects)
MaxCollections == 2    \* group collections that can exist at once
MaxEvents == 2         \* server events handled in one run
MaxPending == 4        \* requests that can be outstanding at once
MaxOutstanding == 2    \* outstanding requests beyond which SpecSync issues no command
MaxPolls == 5          \* polls of one run of the Live Refacet timer
MaxPresets == 2        \* presets in Scene.refacet_presets

ItemIds == {1, 2}      \* ITEM identities the modeling server uses
GroupIds == {1, 2}     \* GROUP identities (> 0; 0 is the synthetic root)
Files == {"a", "b"}    \* document filenames

ObjHandles == 1 .. MaxObjects
CollHandles == 1 .. MaxCollections

\* the value of an absent slot of bpy.data.objects / bpy.data.collections
Null == [none |-> TRUE]

(***************************************************************************)
(* Sequence helpers                                                        *)
(***************************************************************************)
Range(s) == {s[i] : i \in DOMAIN s}

Min2(a, b) == IF a <= b THEN a ELSE b

Max2(a, b) == IF a >= b THEN a ELSE b

\* the sum of f[1] .. f[n]: the positive and the negative units are counted
SumTo(f, n) ==
    Cardinality(UNION {{<<k, j>> : j \in 1 .. f[k]} : k \in 1 .. n})
      - Cardinality(UNION {{<<k, j>> : j \in 1 .. (0 - f[k])} : k \in 1 .. n})

\* the largest of 0, f[1] .. f[n]
MaxTo(f, n) ==
    LET vals == {0} \cup {f[k] : k \in 1 .. n}
    IN CHOOSE m \in vals : \A v \in vals : v <= m

\* the k-th smallest member of a finite set of integers
Nth(S, k) == CHOOSE s \in S : Cardinality({t \in S : t < s}) = k - 1

(***************************************************************************)
(* Meshes.  A host mesh is                                                 *)
(*   verts    the vertex positions (one code per position)                 *)
(*   loops    the corner -> vertex index array (0-based vertex indices)    *)
(*   polys    the polygons, each [loop_start, loop_total] (0-based start)  *)
(*   groups, face_ids   the stored tables mesh["groups"], mesh["face_ids"] *)
(*   groups_version, seams_version   the stored version counters          *)
(* Normals do not take part in any property below and are left out.        *)
(***************************************************************************)
EmptyMesh ==
    [verts |-> <<>>, loops |-> <<>>, polys |-> <<>>, groups |-> <<>>,
     face_ids |-> <<>>, groups_version |-> 0, seams_version |-> 0]

\* polygon (1-based position p) that owns corner li (0-based), 0 when none
PolyOfLoop(mesh, li) ==
    LET owners == {p \in DOMAIN mesh.polys :
                      /\ mesh.polys[p].loop_start <= li
                      /\ li < mesh.polys[p].loop_start + mesh.polys[p].loop_total}
    IN IF owners = {} THEN 0 ELSE CHOOSE p \in owners : TRUE

_group_index_mode_for_mesh(groups, mesh) ==
    IF Len(groups) = 0 THEN "loops"
    ELSE
      LET group_len == Len(groups)
          npairs == (group_len + 1) \div 2
          start == [k \in 1 .. npairs |-> groups[2 * k - 1]]
          count == [k \in 1 .. npairs |->
                       IF 2 * k <= group_len THEN groups[2 * k] ELSE 0]
          ends == [k \in 1 .. npairs |-> start[k] + count[k]]
          counts_total == SumTo(count, npairs)
          max_end == MaxTo(ends, npairs)
      IN IF max_end <= Len(mesh.polys) THEN "faces"
         ELSE IF max_end <= Len(mesh.loops) THEN "loops"
         ELSE IF counts_total = Len(mesh.polys) THEN "faces"
         ELSE IF counts_total = Len(mesh.loops) THEN "loops"
         ELSE "loops"

\* the per-corner face identity array (-1: none); <<>> when nothing to build
_build_loop_face_ids(mesh, groups, face_ids) ==
    IF Len(groups) = 0 \/ Len(face_ids) = 0 THEN <<>>
    ELSE IF Len(mesh.loops) = 0 THEN <<>>
    ELSE
      LET loop_count == Len(mesh.loops)
          face_count == Len(mesh.polys)
          group_count == Min2(Len(groups) \div 2, Len(face_ids))
          mode == _group_index_mode_for_mesh(groups, mesh)
          start(g) == groups[2 * g - 1]
          count(g) == groups[2 * g]
          \* group g (1-based) writes corner li (0-based)
          Covers(g, li) ==
              /\ count(g) > 0
              /\ start(g) >= 0
              /\ IF mode = "faces"
                 THEN LET p == PolyOfLoop(mesh, li)
                      IN /\ p # 0
                         /\ start(g) <= p - 1
                         /\ p - 1 < Min2(start(g) + count(g), face_count)
                 ELSE /\ start(g) <= li
                      /\ li < Min2(start(g) + count(g), loop_count)
          \* groups are written in order, so the last covering group wins
          Writer(li) == {g \in 1 .. group_count : Covers(g, li)}
      IN [i \in 1 .. loop_count |->
            IF Writer(i - 1) = {} THEN -1
            ELSE face_ids[CHOOSE g \in Writer(i - 1) :
                             \A h \in Writer(i - 1) : h <= g]]

\* each polygon's corners take the polygon's dominant identity (majority
\* vote, the first identity met winning a tie)
_normalize_loop_face_ids(mesh, loop_face_ids) ==
    IF Len(loop_face_ids) = 0 THEN loop_face_ids
    ELSE
      LET Corners(p) == {i \in DOMAIN loop_face_ids :
                            /\ mesh.polys[p].loop_start < i
                            /\ i <= mesh.polys[p].loop_start + mesh.polys[p].loop_total}
          Valid(p) == {i \in Corners(p) : loop_face_ids[i] >= 0}
          Cnt(p, id) == Cardinality({i \in Valid(p) : loop_face_ids[i] = id})
          First(p, id) == CHOOSE i \in Valid(p) :
                             /\ loop_face_ids[i] = id
                             /\ \A j \in Valid(p) : loop_face_ids[j] = id => i <= j
          Dominant(p) ==
              LET ids == {loop_face_ids[i] : i \in Valid(p)}
              IN CHOOSE id \in ids :
                    \A other \in ids :
                       \/ Cnt(p, id) > Cnt(p, other)
                       \/ Cnt(p, id) = Cnt(p, other) /\ First(p, id) <= First(p, other)
      IN [i \in DOMAIN loop_face_ids |->
            LET p == PolyOfLoop(mesh, i - 1)
            IN IF p = 0 \/ Valid(p) = {} THEN loop_face_ids[i] ELSE Dominant(p)]

\* run-length compression of the per-corner identity array: the loop opens a
\* run at every corner whose identity is valid and differs from the corner
\* before it, and flushes (start, count) and the identity when the run ends
_compress_loop_face_ids(loop_face_ids) ==
    LET n == Len(loop_face_ids)
        starts == {i \in 1 .. n :
                      /\ loop_face_ids[i] >= 0
                      /\ (i = 1 \/ loop_face_ids[i - 1] # loop_face_ids[i])}
        \* the first position after i where the run opened at i has ended
        RunEnd(i) == CHOOSE j \in (i + 1) .. (n + 1) :
                        /\ (j = n + 1 \/ loop_face_ids[j] # loop_face_ids[i])
                        /\ \A k \in (i + 1) .. (j - 1) : loop_face_ids[k] = loop_face_ids[i]
        runs == Cardinality(starts)
    IN [groups |-> <<>> \o [j \in 1 .. 2 * runs |->
                       LET i == Nth(starts, (j + 1) \div 2)
                       IN IF j % 2 = 1 THEN i - 1 ELSE RunEnd(i) - i],
        face_ids |-> <<>> \o [k \in 1 .. runs |-> loop_face_ids[Nth(starts, k)]]]

(***************************************************************************)
(* mesh.validate(clean_customdata=False): the host drops every polygon     *)
(* that uses a vertex twice and compacts the corner array; the per-corner  *)
(* attribute attr (or <<>>) follows the surviving corners.                 *)
(***************************************************************************)
Validate(mesh, attr) ==
    LET Corner(p, k) == mesh.loops[mesh.polys[p].loop_start + k]
        Degenerate(p) == \E a, b \in 1 .. mesh.polys[p].loop_total :
                            a # b /\ Corner(p, a) = Corner(p, b)
        kept == {p \in DOMAIN mesh.polys : ~Degenerate(p)}
        K == Cardinality(kept)
        Total(k) == mesh.polys[Nth(kept, k)].loop_total
        \* corners written before the k-th surviving polygon
        Offset(k) == SumTo([j \in 1 .. (k - 1) |-> Total(j)], k - 1)
        Owner(i) == CHOOSE k \in 1 .. K : Offset(k) < i /\ i <= Offset(k) + Total(k)
        Old(i) == mesh.polys[Nth(kept, Owner(i))].loop_start + i - Offset(Owner(i))
        loops == <<>> \o [i \in 1 .. Offset(K + 1) |-> mesh.loops[Old(i)]]
        polys == <<>> \o [k \in 1 .. K |->
                            [loop_start |-> Offset(k), loop_total |-> Total(k)]]
    IN [mesh |-> [mesh EXCEPT !.loops = loops, !.polys = polys],
        attr |-> IF Len(attr) = 0 THEN <<>>
                 ELSE <<>> \o [i \in 1 .. Offset(K + 1) |-> attr[Old(i)]]]

_rebuild_groups_from_face_id_attribute(mesh, attr) ==
    IF Len(mesh.loops) = 0 THEN [groups |-> <<>>, face_ids |-> <<>>]
    ELSE _compress_loop_face_ids(_normalize_loop_face_ids(mesh, attr))

\* mesh["groups"], mesh["face_ids"] and the two version counters are stored
StoreGroups(mesh, groups, face_ids) ==
    [mesh EXCEPT !.groups = groups,
                 !.face_ids = face_ids,
                 !.groups_version = mesh.groups_version + 1,
                 !.seams_version = mesh.seams_version + 1]

\* v is the validated mesh with the face identity attribute that followed it
StoreRebuilt(mesh, rebuilt) == StoreGroups(mesh, rebuilt.groups, rebuilt.face_ids)

RebuildValidated(v) ==
    StoreRebuilt(v.mesh, _rebuild_groups_from_face_id_attribute(v.mesh, v.attr))

\* the branch on face_attr (set when _ensure_face_id_attribute built an array)
ApplyFaceIds(mesh, groups, face_ids, loop_face_ids) ==
    IF Len(loop_face_ids) # 0
    THEN RebuildValidated(Validate(mesh, loop_face_ids))
    ELSE StoreGroups(mesh, groups, face_ids)

\* safe_loop_normals validates the mesh once more
safe_loop_normals(mesh) ==
    IF Len(mesh.loops) = 0 THEN mesh ELSE Validate(mesh, <<>>).mesh

_apply_plasticity_groups_and_normals(mesh, groups, face_ids) ==
    safe_loop_normals(
        ApplyFaceIds(mesh, groups, face_ids,
                     _build_loop_face_ids(mesh, groups, face_ids)))

\* the triangle geometry of a payload written into a mesh
TriangleGeometry(mesh, payload) ==
    [mesh EXCEPT
       !.verts = mesh.verts \o payload.vertices,
       !.loops = mesh.loops \o payload.faces,
       !.polys = mesh.polys \o
                   [p \in 1 .. (Len(payload.faces) \div 3) |->
                       [loop_start |-> Len(mesh.loops) + 3 * (p - 1), loop_total |-> 3]]]

clear_geometry(mesh) ==
    [mesh EXCEPT !.verts = <<>>, !.loops = <<>>, !.polys = <<>>]

__create_mesh(payload) ==
    _apply_plasticity_groups_and_normals(
        TriangleGeometry(EmptyMesh, payload), payload.groups, payload.face_ids)

\* C8 mutant: the update leaves the old geometry in place
__update_object_and_mesh_Unclear(mesh, payload) ==
    _apply_plasticity_groups_and_normals(
        TriangleGeometry(mesh, payload), payload.groups, payload.face_ids)

__update_object_and_mesh(mesh, payload) ==
    _apply_plasticity_groups_and_normals(
        TriangleGeometry(clear_geometry(mesh), payload), payload.groups, payload.face_ids)

\* __update_mesh_ngons: np.unique keeps the distinct positions in ascending
\* order and maps every corner to its position's rank; a polygon starts at
\* corner 0 and wherever the per-corner polygon number changes, and without
\* polygon numbers every three corners make a triangle
__update_mesh_ngons(mesh, payload) ==
    LET unique_verts == Range(payload.vertices)
        Rank(v) == Cardinality({u \in unique_verts : u < v})
        new_indices == [c \in DOMAIN payload.indices |->
                           Rank(payload.vertices[payload.indices[c] + 1])]
        starts == {c \in DOMAIN payload.faces :
                      c = 1 \/ payload.faces[c] # payload.faces[c - 1]}
        Following(c) == {d \in starts : d > c} \cup {Len(payload.faces) + 1}
        loop_total(c) == (CHOOSE d \in Following(c) : \A e \in Following(c) : d <= e) - c
    IN _apply_plasticity_groups_and_normals(
         [clear_geometry(mesh) EXCEPT
            !.verts = [k \in 1 .. Cardinality(unique_verts) |-> Nth(unique_verts, k)],
            !.loops = <<>> \o new_indices,
            !.polys =
               IF Len(payload.faces) = 0
               THEN [p \in 1 .. (Len(new_indices) \div 3) |->
                        [loop_start |-> 3 * (p - 1), loop_total |-> 3]]
               ELSE [p \in 1 .. Cardinality(starts) |->
                        [loop_start |-> Nth(starts, p) - 1,
                         loop_total |-> loop_total(Nth(starts, p))]]],
         payload.groups, payload.face_ids)

(***************************************************************************)
(* Tessellation payloads the modeling server sends                         *)
(***************************************************************************)
\* two triangles, the groups indexing corners
PayloadQuad ==
    [vertices |-> <<10, 11, 12, 13>>, faces |-> <<0, 1, 2, 0, 2, 3>>,
     groups |-> <<0, 3, 3, 3>>, face_ids |-> <<7, 8>>]

\* two triangles, the second one degenerate, the groups indexing polygons
PayloadDegenerate ==
    [vertices |-> <<20, 21, 22>>, faces |-> <<0, 1, 2, 0, 0, 1>>,
     groups |-> <<0, 1, 1, 1>>, face_ids |-> <<7, 9>>]

\* one triangle whose group table cuts through the polygon
PayloadSplit ==
    [vertices |-> <<30, 31, 32>>, faces |-> <<0, 1, 2>>,
     groups |-> <<0, 2, 2, 1>>, face_ids |-> <<5, 6>>]

\* a triangle without a group table
PayloadBare ==
    [vertices |-> <<40, 41, 42>>, faces |-> <<0, 1, 2>>,
     groups |-> <<>>, face_ids |-> <<>>]


Payloads == {PayloadQuad, PayloadDegenerate, PayloadSplit, PayloadBare}

\* refacet results: a quadrilateral whose vertex list repeats a position,
\* and a triangle list without polygon numbers
RefacetNgon ==
    [vertices |-> <<12, 10, 11, 10, 13>>, indices |-> <<1, 2, 0, 4>>,
     faces |-> <<5, 5, 5, 5>>, groups |-> <<0, 4>>, face_ids |-> <<7>>]

RefacetTriangles ==
    [vertices |-> <<20, 21, 22>>, indices |-> <<0, 1, 2>>,
     faces |-> <<>>, groups |-> <<0, 1>>, face_ids |-> <<9>>]

RefacetPayloads == {RefacetNgon, RefacetTriangles}

\* the mesh operations, tabulated over the meshes a create and an update
\* after it produce; a mesh outside the table is computed directly
CreatedMeshTable == {<<p, __create_mesh(p)>> : p \in Payloads}

OnceUpdatedMeshes ==
    {t[2] : t \in CreatedMeshTable}
      \cup {__update_object_and_mesh(t[2], p) : t \in CreatedMeshTable, p \in Payloads}

UpdatedMeshTable ==
    {<<m, p, __update_object_and_mesh(m, p)>> : m \in OnceUpdatedMeshes, p \in Payloads}

CreatedMesh(payload) == (CHOOSE t \in CreatedMeshTable : t[1] = payload)[2]

UpdatedMesh(mesh, payload) ==
    IF \E t \in UpdatedMeshTable : t[1] = mesh /\ t[2] = payload
    THEN (CHOOSE t \in UpdatedMeshTable : t[1] = mesh /\ t[2] = payload)[3]
    ELSE __update_object_and_mesh(mesh, payload)

(***************************************************************************)
(* State                                                                   *)
(***************************************************************************)
VARIABLES
    objects,            \* bpy.data.objects: handle -> object record or Null
    collections,        \* bpy.data.collections (group collections): handle -> record or Null
    files,              \* SceneHandler.files: filename -> lookup tables or Null
    list_filter_ids,    \* SceneHandler.list_filter_ids
    reported,           \* the errors SceneHandler.report printed during the last event
    plasticity_busy,    \* WindowManager.plasticity_busy
    connected,          \* PlasticityClient.connected
    subscribed,         \* PlasticityClient.subscribed
    pending,            \* requests sent to the modeling server and not yet answered
    events,             \* number of server events handled so far
    last,               \* the server event handled last, with what the handler saw
    prop_plasticity_live_refacet,           \* Scene.prop_plasticity_live_refacet
    _LIVE_REFACET_TIMER_RUNNING,            \* operators.py module globals
    _LIVE_REFACET_LAST_SIGNATURE,
    _LIVE_REFACET_LAST_APPLIED_SIGNATURE,
    polls,              \* the polls of the running timer: what each observed and did
    scene_settings,     \* the Scene properties the refacet command reads
    refacet_presets,    \* Scene.refacet_presets
    active_refacet_preset_index,            \* Scene.active_refacet_preset_index
    preset_file,        \* refacet_presets.json
    call,               \* the tool function or command run last: its arguments and its result
    prop_plasticity_live_expand,            \* Scene.prop_plasticity_live_expand
    _LIVE_EXPAND_TIMER_RUNNING,             \* operators.py module globals
    _LIVE_EXPAND_BASE_SELECTION,            \* the objects with a tracked base selection
    group_mesh,         \* one tagged object's mesh datablock, as the selection tools read it
    undo_memory,        \* the host's undo steps for that mesh, and the step it stands at
    _PLASTICITY_GROUP_CACHE,                \* operators.py module global: its entry for that mesh
    face_select,        \* the faces of the edit mesh whose select flag is set
    live_expand_entry   \* the edit object's entries in the _LIVE_EXPAND_* dictionaries

sceneVars == <<objects, collections, files, list_filter_ids, reported>>
clientVars == <<plasticity_busy, connected, subscribed, pending>>
historyVars == <<events, last>>
liveVars == <<prop_plasticity_live_refacet, _LIVE_REFACET_TIMER_RUNNING,
              _LIVE_REFACET_LAST_SIGNATURE, _LIVE_REFACET_LAST_APPLIED_SIGNATURE, polls>>
presetVars == <<scene_settings, refacet_presets, active_refacet_preset_index, preset_file>>
toolVars == <<call>>
expandVars == <<prop_plasticity_live_expand, _LIVE_EXPAND_TIMER_RUNNING,
                _LIVE_EXPAND_BASE_SELECTION>>
editVars == <<face_select, live_expand_entry>>
cacheVars == <<group_mesh, undo_memory, _PLASTICITY_GROUP_CACHE, face_select, live_expand_entry>>
vars == <<objects, collections, files, list_filter_ids, reported,
          plasticity_busy, connected, subscribed, pending, events, last,
          prop_plasticity_live_refacet, _LIVE_REFACET_TIMER_RUNNING,
          _LIVE_REFACET_LAST_SIGNATURE, _LIVE_REFACET_LAST_APPLIED_SIGNATURE, polls,
          scene_settings, refacet_presets, active_refacet_preset_index, preset_file,
          call,
          prop_plasticity_live_expand, _LIVE_EXPAND_TIMER_RUNNING,
          _LIVE_EXPAND_BASE_SELECTION,
          group_mesh, undo_memory, _PLASTICITY_GROUP_CACHE,
          face_select, live_expand_entry>>

\* the Inbox collection of a document, as a collection reference
InboxOf(f) == IF f = "a" THEN 0 ELSE -1

\* list_filter_ids: None, or a set of identities
NoFilter == [is_none |-> TRUE, ids |-> {}]
Filter(ids) == [is_none |-> FALSE, ids |-> ids]

\* a lookup table with no entry
EmptyTable == [pid \in {} |-> 0]
EmptyTables == [ITEM |-> EmptyTable, GROUP |-> EmptyTable]

\* dict.get / dict assignment / dict.pop on a lookup table (0: None)
Get(table, pid) == IF pid \in DOMAIN table THEN table[pid] ELSE 0
Put(table, pid, h) == [k \in DOMAIN table \cup {pid} |-> IF k = pid THEN h ELSE table[k]]
Pop(table, pid) == [k \in DOMAIN table \ {pid} |-> table[k]]

Existing(objs) == {h \in DOMAIN objs : objs[h] # Null}

\* flags: bit 0 hidden, bit 1 visible, bit 2 selectable
is_hidden(flags) == (flags % 2) = 1
is_visible(flags) == ((flags \div 2) % 2) = 1
is_selectable(flags) == ((flags \div 4) % 2) = 1

(***************************************************************************)
(* SceneHandler.__prepare: the lookup tables rebuilt from the objects and  *)
(* collections found under the document's Inbox                            *)
(***************************************************************************)
RECURSIVE gather_collections(_, _)
gather_collections(colls, reached) ==
    LET more == {c \in Existing(colls) : colls[c].parents \cap reached # {}}
    IN IF more \subseteq reached THEN reached
       ELSE gather_collections(colls, reached \cup more)

\* the walk's last object wins when an identity occurs twice
LastWith(objs, handles, pid) ==
    CHOOSE h \in handles : /\ objs[h].pid = pid
                           /\ \A g \in handles : objs[g].pid = pid => g <= h

__prepare(objs, colls, filename) ==
    LET under == gather_collections(colls, {InboxOf(filename)})
        gathered_collections == under \ {InboxOf(filename)}
        gathered_objects == {o \in Existing(objs) : objs[o].links \cap under # {}}
        item_ids == {objs[o].pid : o \in gathered_objects} \ {0}
        group_ids == {colls[c].pid : c \in gathered_collections} \ {0}
    IN [ITEM |-> [pid \in item_ids |-> LastWith(objs, gathered_objects, pid)],
        GROUP |-> [pid \in group_ids |-> LastWith(colls, gathered_collections, pid)]]

(***************************************************************************)
(* The handler's working state while it processes one event:               *)
(*   objects, collections   the host data                                  *)
(*   tables                 self.files[filename]                           *)
(*   reported               the errors printed so far                      *)
(*   ok                     FALSE once the model ran out of handles or a   *)
(*                          version counter would pass MaxVersion          *)
(***************************************************************************)
FreeHandle(objs) ==
    IF Existing(objs) = DOMAIN objs THEN 0
    ELSE CHOOSE h \in DOMAIN objs \ Existing(objs) :
            \A g \in DOMAIN objs \ Existing(objs) : h <= g

\* bpy.data.objects.remove(obj, do_unlink=True)
__delete_object(st, plasticity_id) ==
    LET obj == Get(st.tables.ITEM, plasticity_id)
    IN IF obj = 0 THEN st
       ELSE [st EXCEPT !.tables.ITEM = Pop(st.tables.ITEM, plasticity_id),
                       !.objects[obj] = Null]

\* bpy.data.collections.remove(group, do_unlink=True): the collection goes,
\* its objects and child collections lose that link
__delete_group(st, plasticity_id) ==
    LET group == Get(st.tables.GROUP, plasticity_id)
    IN IF group = 0 THEN st
       ELSE [st EXCEPT
               !.tables.GROUP = Pop(st.tables.GROUP, plasticity_id),
               !.collections =
                   [c \in DOMAIN st.collections |->
                      IF c = group \/ st.collections[c] = Null THEN Null
                      ELSE [st.collections[c] EXCEPT !.parents = @ \ {group}]],
               !.objects =
                   [o \in DOMAIN st.objects |->
                      IF st.objects[o] = Null THEN Null
                      ELSE [st.objects[o] EXCEPT !.links = @ \ {group}]]]

\* the first loop of __replace_objects: meshes and collections are created
\* or updated; w carries st, collections_to_unlink and the local variable
\* group_collection (0 while unbound)
ReplaceFirstStep(w, filename, item) ==
    LET st == w.st
        plasticity_id == item.id
    IN IF item.type = SOLID \/ item.type = SHEET
       THEN IF plasticity_id \notin DOMAIN st.tables.ITEM
            THEN LET h == FreeHandle(st.objects)
                 IN IF h = 0 THEN [w EXCEPT !.st.ok = FALSE]
                    ELSE [w EXCEPT
                            !.st.objects[h] =
                                [pid |-> plasticity_id, filename |-> filename,
                                 links |-> {}, hide |-> FALSE, hide_select |-> FALSE,
                                 mesh |-> CreatedMesh(item.payload)],
                            !.st.tables.ITEM = Put(st.tables.ITEM, plasticity_id, h)]
            ELSE LET obj == st.tables.ITEM[plasticity_id]
                 IN IF st.objects[obj].mesh.groups_version >= MaxVersion
                    THEN [w EXCEPT !.st.ok = FALSE]
                    ELSE [w EXCEPT
                            !.st.objects[obj].mesh =
                                UpdatedMesh(@, item.payload),
                            !.st.objects[obj].links = {}]
       ELSE IF item.type = GROUP
       THEN IF plasticity_id > 0
            THEN IF plasticity_id \notin DOMAIN st.tables.GROUP
                 THEN LET h == FreeHandle(st.collections)
                      IN IF h = 0 THEN [w EXCEPT !.st.ok = FALSE]
                         ELSE [w EXCEPT
                                 !.st.collections[h] =
                                     [pid |-> plasticity_id, filename |-> filename,
                                      parents |-> {}, hide_viewport |-> FALSE,
                                      hide_select |-> FALSE],
                                 !.st.tables.GROUP = Put(st.tables.GROUP, plasticity_id, h),
                                 !.group_collection = h]
                 ELSE [w EXCEPT
                         !.group_collection = st.tables.GROUP[plasticity_id],
                         !.collections_to_unlink = @ \cup {st.tables.GROUP[plasticity_id]}]
            ELSE w
       ELSE w

RECURSIVE ReplaceFirstLoop(_, _, _, _)
ReplaceFirstLoop(w, filename, items, i) ==
    IF i > Len(items) THEN w
    ELSE ReplaceFirstLoop(ReplaceFirstStep(w, filename, items[i]), filename, items, i + 1)

\* "Unlink all mirrored collections, in case they have moved"
UnlinkMirrored(colls, collections_to_unlink) ==
    [c \in DOMAIN colls |->
        IF c \in collections_to_unlink /\ colls[c] # Null
        THEN [colls[c] EXCEPT !.parents = {}]
        ELSE colls[c]]

\* the second loop of __replace_objects: parenting and flags
ReplaceSecondStep(w, filename, item) ==
    LET st == w.st
        uniqueness_scope == IF item.type # GROUP THEN ITEM_SCOPE ELSE GROUP_SCOPE
        plasticity_id == item.id
        parent_id == item.parent_id
        obj == Get(st.tables[uniqueness_scope], plasticity_id)
        parent == IF parent_id = 0 THEN InboxOf(filename)
                  ELSE Get(st.tables.GROUP, parent_id)
        parent_found == parent_id = 0 \/ parent # 0
        hide == is_hidden(item.flags) \/ ~is_visible(item.flags)
        hide_select == ~is_selectable(item.flags)
    IN IF plasticity_id = 0 THEN w
       ELSE IF obj = 0
       THEN [w EXCEPT !.st.reported = @ \cup {<<"object", item.type, plasticity_id>>}]
       ELSE IF ~parent_found
       THEN [w EXCEPT !.st.reported = @ \cup {<<"parent", item.type, plasticity_id>>}]
       ELSE IF item.type = GROUP
       THEN [w EXCEPT
               !.st.collections =
                   [[st.collections EXCEPT ![obj].parents = @ \cup {parent}]
                       EXCEPT ![w.group_collection].hide_viewport = hide,
                              ![w.group_collection].hide_select = hide_select]]
       ELSE [w EXCEPT
               !.st.objects[obj].links = @ \cup {parent},
               !.st.objects[obj].hide = hide,
               !.st.objects[obj].hide_select = hide_select]

RECURSIVE ReplaceSecondLoop(_, _, _, _)
ReplaceSecondLoop(w, filename, items, i) ==
    IF i > Len(items) THEN w
    ELSE ReplaceSecondLoop(ReplaceSecondStep(w, filename, items[i]), filename, items, i + 1)

\* between the loops: "Unlink all mirrored collections, in case they have moved"
Unlinked(w) ==
    [w EXCEPT !.st.collections =
                 UnlinkMirrored(w.st.collections, w.collections_to_unlink)]

ReplaceParented(w, filename, items) ==
    IF w.st.ok THEN ReplaceSecondLoop(Unlinked(w), filename, items, 1).st ELSE w.st

__replace_objects(st, filename, items) ==
    ReplaceParented(
        ReplaceFirstLoop([st |-> st, collections_to_unlink |-> {}, group_collection |-> 0],
                         filename, items, 1),
        filename, items)

RECURSIVE DeleteObjects(_, _, _)
DeleteObjects(st, ids, i) ==
    IF i > Len(ids) THEN st
    ELSE DeleteObjects(__delete_object(st, ids[i]), ids, i + 1)

\* the entries of a cached lookup table whose host data still exists
LiveRefs(table, objs) ==
    [pid \in {p \in DOMAIN table : objs[table[p]] # Null} |-> table[pid]]

\* C11 mutant: the lookup tables are kept from the previous event of the
\* document instead of being rebuilt from the host data
Prepared_Cached(filename) ==
    LET cached == IF files[filename] = Null THEN EmptyTables ELSE files[filename]
    IN [objects |-> objects, collections |-> collections,
        tables |-> [ITEM |-> LiveRefs(cached.ITEM, objects),
                    GROUP |-> LiveRefs(cached.GROUP, collections)],
        reported |-> {}, ok |-> TRUE]

\* the handler's working state at the start of an event, after __prepare
Prepared(filename) ==
    [objects |-> objects, collections |-> collections,
     tables |-> __prepare(objects, collections, filename),
     reported |-> {}, ok |-> TRUE]

\* the three steps of on_transaction
TransactionDelete(st, transaction) == DeleteObjects(st, transaction.delete, 1)

TransactionAdd(st, transaction) ==
    IF st.ok THEN __replace_objects(st, transaction.filename, transaction.add) ELSE st

TransactionUpdate(st, transaction) ==
    IF st.ok THEN __replace_objects(st, transaction.filename, transaction.update) ELSE st

\* the result of on_transaction on the current state
on_transaction(transaction) ==
    TransactionUpdate(
        TransactionAdd(
            TransactionDelete(Prepared(transaction.filename), transaction),
            transaction),
        transaction)

\* the deletions of distinct identities commute; they are made in ascending order
RECURSIVE DeleteObjectSet(_, _)
DeleteObjectSet(st, ids) ==
    IF ids = {} THEN st
    ELSE LET id == CHOOSE k \in ids : \A m \in ids : k <= m
         IN DeleteObjectSet(__delete_object(st, id), ids \ {id})

RECURSIVE DeleteGroupSet(_, _)
DeleteGroupSet(st, ids) ==
    IF ids = {} THEN st
    ELSE LET id == CHOOSE k \in ids : \A m \in ids : k <= m
         IN DeleteGroupSet(__delete_group(st, id), ids \ {id})

\* on_list: selected_only, all_items, all_groups and the filtered lists
selected_only == ~list_filter_ids.is_none /\ list_filter_ids.ids # {}

all_items(message) ==
    {item.id : item \in {i \in Range(message.add \o message.update) : i.type # GROUP}}

all_groups(message) ==
    {item.id : item \in {i \in Range(message.add \o message.update) : i.type = GROUP}}

PassesFilter(item) == item.type = GROUP \/ item.id \in list_filter_ids.ids

\* C2 mutant: the lists are processed whole under a filter
Filtered_Whole(items) == items

Filtered(items) == IF selected_only THEN SelectSeq(items, PassesFilter) ELSE items

\* the steps of on_list
ListAdd(st, message) ==
    IF Len(Filtered(message.add)) > 0
    THEN __replace_objects(st, message.filename, Filtered(message.add)) ELSE st

ListUpdate(st, message) ==
    IF Len(Filtered(message.update)) > 0 /\ st.ok
    THEN __replace_objects(st, message.filename, Filtered(message.update)) ELSE st

\* C1 mutant: the GROUP namespace is not reconciled
ListDeleteGroups_Skipped(st, message) == st

ListDeleteGroups(st, message) ==
    DeleteGroupSet(st, DOMAIN st.tables.GROUP \ all_groups(message))

ListDelete(st, message) ==
    IF ~st.ok THEN st
    ELSE IF selected_only
    THEN DeleteObjectSet(st, list_filter_ids.ids \ all_items(message))
    ELSE ListDeleteGroups(
             DeleteObjectSet(st, DOMAIN st.tables.ITEM \ all_items(message)), message)

\* the result of on_list on the current state
on_list(message) ==
    ListDelete(ListUpdate(ListAdd(Prepared(message.filename), message), message), message)

(***************************************************************************)
(* Refacet settings (src/__init__.py).  Lengths and tolerances are counted *)
(* in units of 0.0001, angles in units of 0.0001 rad, density in units of  *)
(* 0.01; every value the model uses is a whole number of units.            *)
(***************************************************************************)
DefaultSettings ==
    [prop_plasticity_ui_show_advanced_facet |-> FALSE,
     prop_plasticity_facet_tri_or_ngon |-> "TRI",
     prop_plasticity_facet_tolerance |-> 100,
     prop_plasticity_facet_angle |-> 4500,
     prop_plasticity_facet_min_width |-> 100,
     prop_plasticity_facet_max_width |-> 10000,
     prop_plasticity_curve_chord_tolerance |-> 100,
     prop_plasticity_curve_angle_tolerance |-> 4500,
     prop_plasticity_surface_plane_tolerance |-> 100,
     prop_plasticity_surface_angle_tolerance |-> 4500,
     prop_plasticity_plane_angle |-> 1000,
     prop_plasticity_convex_ngons_only |-> FALSE,
     prop_plasticity_curve_max_length_enabled |-> FALSE,
     prop_plasticity_curve_max_length |-> 0,
     prop_plasticity_relative_to_bbox |-> TRUE,
     prop_plasticity_match_topology |-> TRUE]

\* a preset as refacet_presets.add() makes it: every property at its default
RefacetPreset ==
    [name |-> "New Preset", density |-> 1, tolerance |-> 100, angle |-> 4500,
     facet_tri_or_ngon |-> "TRI",
     min_width |-> 100, min_width_enabled |-> FALSE,
     max_width |-> 10000, max_width_enabled |-> FALSE,
     Edge_chord_tolerance |-> 100, Edge_Angle_tolerance |-> 4500,
     Face_plane_tolerance |-> 100, Face_Angle_tolerance |-> 4500,
     plane_angle |-> 1000, convex_ngons_only |-> FALSE,
     curve_max_length_enabled |-> FALSE, curve_max_length |-> 0,
     relative_to_bbox |-> TRUE, match_topology |-> TRUE]

_density_to_plane_tolerance(density) == Max2(1, 100 - density)

_density_to_angle_tolerance(density) == Max2(1000, 4500 - 35 * density)

_set_attr_if_changed(self, attr, value) ==
    IF self[attr] = value THEN self ELSE [self EXCEPT ![attr] = value]

\* the update callback of RefacetPreset.density
update_density_preset(self) ==
    LET density == Max2(1, Min2(100, self.density))
        plane_tol == _density_to_plane_tolerance(density)
        angle_tol == _density_to_angle_tolerance(density)
    IN _set_attr_if_changed(
         _set_attr_if_changed(
           _set_attr_if_changed(
             _set_attr_if_changed(
               _set_attr_if_changed(
                 _set_attr_if_changed(self, "tolerance", plane_tol),
                 "angle", angle_tol),
               "Edge_chord_tolerance", plane_tol),
             "Face_plane_tolerance", plane_tol),
           "Edge_Angle_tolerance", angle_tol),
         "Face_Angle_tolerance", angle_tol)

\* setattr(preset, attr, value): the property is assigned and its update
\* callback runs; every callback ends in save_presets, which the commands
\* below perform once, after the last assignment
SetPresetAttr(self, attr, value) ==
    IF attr = "density"
    THEN update_density_preset([self EXCEPT ![attr] = value])
    ELSE [self EXCEPT ![attr] = value]

\* the scalar attributes of a preset in the order dir() lists them
PresetAttrs ==
    <<"Edge_Angle_tolerance", "Edge_chord_tolerance", "Face_Angle_tolerance",
      "Face_plane_tolerance", "angle", "convex_ngons_only", "curve_max_length",
      "curve_max_length_enabled", "density", "facet_tri_or_ngon",
      "match_topology", "max_width", "max_width_enabled", "min_width",
      "min_width_enabled", "name", "plane_angle", "relative_to_bbox",
      "tolerance">>

\* RefacetPreset.to_dict: the (attribute, value) pairs, in dir() order
to_dict(self) ==
    [k \in DOMAIN PresetAttrs |-> <<PresetAttrs[k], self[PresetAttrs[k]]>>]

\* RefacetPreset.from_dict: the pairs are assigned in the order of the dict
RECURSIVE from_dict_from(_, _, _)
from_dict_from(self, preset_dict, k) ==
    IF k > Len(preset_dict) THEN self
    ELSE from_dict_from(SetPresetAttr(self, preset_dict[k][1], preset_dict[k][2]),
                        preset_dict, k + 1)

from_dict(self, preset_dict) == from_dict_from(self, preset_dict, 1)

\* refacet_presets.json: absent, or a JSON array of dicts
NoFile == [exists |-> FALSE, array |-> <<>>]

\* save_presets: the JSON array written to refacet_presets.json
save_presets(presets) ==
    [exists |-> TRUE, array |-> [k \in DOMAIN presets |-> to_dict(presets[k])]]

\* load_presets: the list is cleared; one preset is added and filled per
\* entry of the file, when there is a file
load_presets(file) ==
    IF ~file.exists THEN <<>>
    ELSE [k \in DOMAIN file.array |-> from_dict(RefacetPreset, file.array[k])]

\* the file after load_presets: the assignments of from_dict save the list
FileAfterLoad(file) ==
    IF ~file.exists \/ file.array = <<>> THEN file
    ELSE save_presets(load_presets(file))

(***************************************************************************)
(* Events of the modeling server.  A list response answers the oldest      *)
(* outstanding request, which must be a list request.                      *)
(***************************************************************************)
NoEvent ==
    [kind |-> "none",
     msg |-> [filename |-> "", delete |-> <<>>, add |-> <<>>, update |-> <<>>],
     filter |-> NoFilter, before |-> [ITEM |-> {}, GROUP |-> {}],
     repeated |-> FALSE, loaded |-> NoFile]

\* what the handler found under the Inbox when the event started
Tracked(filename) ==
    LET tables == __prepare(objects, collections, filename)
    IN [ITEM |-> DOMAIN tables.ITEM, GROUP |-> DOMAIN tables.GROUP]

\* the handler's working state st becomes the scene
SceneBecomes(st, filename) ==
    /\ st.ok
    /\ objects' = st.objects
    /\ collections' = st.collections
    /\ files' = [files EXCEPT ![filename] = st.tables]
    /\ reported' = st.reported

OnTransaction(transaction) ==
    /\ connected /\ subscribed
    /\ events < MaxEvents
    /\ SceneBecomes(on_transaction(transaction), transaction.filename)
    /\ plasticity_busy' = FALSE
    /\ events' = events + 1
    /\ last' = [kind |-> "transaction", msg |-> transaction,
                filter |-> list_filter_ids,
                before |-> Tracked(transaction.filename),
                repeated |-> (last.kind = "transaction" /\ last.msg = transaction),
                loaded |-> NoFile]
    /\ UNCHANGED <<list_filter_ids, connected, subscribed, pending>>
    /\ UNCHANGED <<liveVars, presetVars, toolVars, expandVars, cacheVars>>

IsListRequest(r) == r.kind = "list_all" \/ r.kind = "list_visible"

OnList(message) ==
    /\ connected
    /\ events < MaxEvents
    /\ Len(pending) > 0 /\ IsListRequest(Head(pending))
    /\ SceneBecomes(on_list(message), message.filename)
    /\ pending' = Tail(pending)
    /\ plasticity_busy' = FALSE
    /\ list_filter_ids' = NoFilter
    /\ events' = events + 1
    /\ last' = [kind |-> "list",
                msg |-> [filename |-> message.filename, delete |-> <<>>,
                         add |-> message.add, update |-> message.update],
                filter |-> list_filter_ids,
                before |-> Tracked(message.filename),
                repeated |-> FALSE, loaded |-> NoFile]
    /\ UNCHANGED <<connected, subscribed>>
    /\ UNCHANGED <<liveVars, presetVars, toolVars, expandVars, cacheVars>>

(***************************************************************************)
(* ui.py: the Refresh command.  selected_objects is context.selected_      *)
(* objects; only_visible and only_selected are the two Scene options.      *)
(***************************************************************************)
ListButton_poll == ~plasticity_busy /\ connected

\* a request remembers, for the properties, the filter its command installed:
\* the request sent carries none
ListButton(selected_objects, only_visible, only_selected) ==
    LET selected_ids == {objects[o].pid : o \in selected_objects}
    IN /\ ListButton_poll
       /\ selected_objects \subseteq Existing(objects)
       /\ Len(pending) < MaxPending
       /\ list_filter_ids' = IF only_selected THEN Filter(selected_ids) ELSE NoFilter
       /\ pending' = Append(pending,
                            [kind |-> IF only_visible THEN "list_visible" ELSE "list_all",
                             filter |-> list_filter_ids'])
       /\ UNCHANGED <<objects, collections, files, reported>>
       /\ UNCHANGED <<plasticity_busy, connected, subscribed>>
       /\ UNCHANGED <<historyVars, liveVars, presetVars, toolVars, expandVars, cacheVars>>

(***************************************************************************)
(* The nodes and messages the modeling server sends.  Item 1 is a solid,   *)
(* item 2 a sheet, item 3 a wire; groups 1 and 2 exist, group 3 never does.*)
(* The two loops of __replace_objects treat an item node independently of  *)
(* its position, so a list puts its item nodes first, by identity; group   *)
(* nodes come in every order.                                              *)
(***************************************************************************)
Node(type, id, parent_id, flags, payload) ==
    [type |-> type, id |-> id, parent_id |-> parent_id, flags |-> flags,
     payload |-> payload]

NodeMenu ==
    { Node(SOLID, 1, 0, 6, PayloadQuad),
      Node(SOLID, 1, 1, 3, PayloadDegenerate),
      Node(SHEET, 2, 0, 4, PayloadSplit),
      Node(SHEET, 2, 3, 2, PayloadBare),
      Node(WIRE, 3, 0, 6, PayloadBare),
      Node(GROUP, 1, 0, 3, Null),
      Node(GROUP, 1, 0, 6, Null),
      Node(GROUP, 2, 1, 4, Null),
      Node(GROUP, 2, 3, 2, Null) }

ScopeOf(item) == IF item.type # GROUP THEN ITEM_SCOPE ELSE GROUP_SCOPE

InListOrder(a, b) ==
    /\ <<ScopeOf(a), a.id>> # <<ScopeOf(b), b.id>>
    /\ ScopeOf(a) = GROUP_SCOPE => ScopeOf(b) = GROUP_SCOPE
    /\ (ScopeOf(a) = ITEM_SCOPE /\ ScopeOf(b) = ITEM_SCOPE) => a.id < b.id

NodeLists ==
    {items \in UNION {[1 .. len -> NodeMenu] : len \in 0 .. MaxNodes} :
        \A i, j \in DOMAIN items : i < j => InListOrder(items[i], items[j])}

Transaction(filename, delete, add, update) ==
    [filename |-> filename, delete |-> delete, add |-> add, update |-> update]

Transactions ==
    {Transaction("a", <<>>, items, <<>>) : items \in NodeLists}
      \cup {Transaction("a", <<>>, <<>>, items) : items \in {l \in NodeLists : Len(l) = 1}}
      \cup {Transaction("a", delete, <<>>, <<>>) : delete \in {<<1>>, <<2>>, <<3>>}}
      \cup {Transaction("b", <<>>, items, <<>>) :
              items \in {l \in NodeLists : Len(l) = 1 /\ l[1].parent_id = 0}}

ListMessage(filename, add, update) ==
    [filename |-> filename, add |-> add, update |-> update]

ListMessages ==
    {ListMessage("a", items, <<>>) : items \in NodeLists}
      \cup {ListMessage("b", <<>>, <<>>)}

(***************************************************************************)
(* Spec: the scene handler under live-link transactions and list           *)
(* responses, connected and subscribed, with nothing outstanding when the  *)
(* Refresh command is used.                                                *)
(***************************************************************************)
EmptyScene ==
    /\ objects = [h \in ObjHandles |-> Null]
    /\ collections = [h \in CollHandles |-> Null]
    /\ files = [f \in Files |-> Null]
    /\ list_filter_ids = NoFilter
    /\ reported = {}

\* Live Refacet off, no timer registered
LiveIdle ==
    /\ prop_plasticity_live_refacet = FALSE
    /\ _LIVE_REFACET_TIMER_RUNNING = FALSE
    /\ _LIVE_REFACET_LAST_SIGNATURE = Null
    /\ _LIVE_REFACET_LAST_APPLIED_SIGNATURE = Null
    /\ polls = <<>>
    /\ prop_plasticity_live_expand = FALSE
    /\ _LIVE_EXPAND_TIMER_RUNNING = FALSE
    /\ _LIVE_EXPAND_BASE_SELECTION = {}

\* the settings as registered, no preset, no preset file
PresetIdle ==
    /\ scene_settings = DefaultSettings
    /\ refacet_presets = <<>>
    /\ active_refacet_preset_index = 0
    /\ preset_file = NoFile

\* the edit object has no entry in _LIVE_EXPAND_BASE_SELECTION,
\* _LIVE_EXPAND_EXPANDED_SELECTION, _LIVE_EXPAND_LAST_SETTINGS and
\* _LIVE_EXPAND_LAST_MERGE_SETTINGS
NoEntry ==
    [tracked |-> FALSE, base_selection |-> {}, expanded_selection |-> {},
     last_settings |-> Null, last_merge_settings |-> Null]

\* a quad of two triangles: one surface, or one surface per triangle
CacheWhole ==
    [vertices |-> <<10, 11, 12, 13>>, faces |-> <<0, 1, 2, 0, 2, 3>>,
     groups |-> <<0, 6>>, face_ids |-> <<1>>]

CacheHalves ==
    [vertices |-> <<10, 11, 12, 13>>, faces |-> <<0, 1, 2, 0, 2, 3>>,
     groups |-> <<0, 3, 3, 3>>, face_ids |-> <<1, 2>>]

\* the mesh as the handler created it, one undo step that remembers it, an
\* empty cache
CacheIdle ==
    /\ group_mesh = __create_mesh(CacheWhole)
    /\ undo_memory = [steps |-> <<__create_mesh(CacheWhole)>>, position |-> 1]
    /\ _PLASTICITY_GROUP_CACHE = Null
    /\ face_select = {}
    /\ live_expand_entry = NoEntry

\* no tool function has run
NoCall == [fn |-> "none"]

\* the add-on connected and subscribed over an empty scene
Connected ==
    /\ EmptyScene
    /\ LiveIdle
    /\ PresetIdle
    /\ CacheIdle
    /\ plasticity_busy = FALSE
    /\ connected = TRUE
    /\ subscribed = TRUE
    /\ pending = <<>>
    /\ events = 0
    /\ last = NoEvent

Init ==
    /\ Connected
    /\ call = NoCall

\* the user refreshes the whole list, or the selected objects only
Refresh ==
    \E selected_objects \in SUBSET ObjHandles, only_selected \in BOOLEAN :
        /\ pending = <<>> /\ events < MaxEvents
        /\ ListButton(selected_objects, FALSE, only_selected)

Next ==
    \/ \E transaction \in Transactions : OnTransaction(transaction)
    \/ \E message \in ListMessages : OnList(message)
    \/ Refresh

Spec == Init /\ [][Next]_vars

(***************************************************************************)
(* SpecUndo: the scene handler under host undo/redo.  The handler brackets *)
(* every event with undo pushes, and the host's undo and redo steps put    *)
(* the scene back to a state it remembers: a tagged object disappears (its *)
(* creation undone) or reappears (its removal undone, its creation         *)
(* redone).  The host's memory is not modelled: an undo step removes any   *)
(* existing object, a redo step restores an object as the handler once     *)
(* made it, under the Inbox of its document, where no remembered scene     *)
(* holds a second object of the same identity.  SceneHandler.files is      *)
(* Python state and is not touched by either step.                         *)
(***************************************************************************)
HostUndo(h) ==
    /\ objects[h] # Null
    /\ objects' = [objects EXCEPT ![h] = Null]
    /\ UNCHANGED <<collections, files, list_filter_ids, reported>>
    /\ UNCHANGED <<clientVars, historyVars, liveVars, presetVars, toolVars, expandVars, cacheVars>>

RestoredObject(filename, pid) ==
    [pid |-> pid, filename |-> filename, links |-> {InboxOf(filename)},
     hide |-> FALSE, hide_select |-> FALSE,
     mesh |-> CreatedMesh(IF pid = 1 THEN PayloadQuad ELSE PayloadSplit)]

HostRedo(filename, pid) ==
    LET h == FreeHandle(objects)
    IN /\ h # 0
       /\ \A o \in Existing(objects) :
             (objects[o].pid = pid /\ objects[o].filename = filename) =>
                objects[o].links \cap gather_collections(collections, {InboxOf(filename)}) = {}
       /\ objects' = [objects EXCEPT ![h] = RestoredObject(filename, pid)]
       /\ UNCHANGED <<collections, files, list_filter_ids, reported>>
       /\ UNCHANGED <<clientVars, historyVars, liveVars, presetVars, toolVars, expandVars, cacheVars>>

\* the events of SpecUndo: transactions and list responses of document "a"
\* that name one node, not a wire, or the solid and the sheet together
UndoNodeLists ==
    {items \in NodeLists :
        Len(items) <= 1 /\ \A i \in DOMAIN items : items[i].type # WIRE}
      \cup {<<Node(SOLID, 1, 0, 6, PayloadQuad), Node(SHEET, 2, 0, 4, PayloadSplit)>>}

UndoTransactions ==
    {Transaction("a", <<>>, items, <<>>) : items \in UndoNodeLists}
      \cup {Transaction("a", <<>>, <<>>, items) : items \in {l \in UndoNodeLists : Len(l) = 1}}

UndoListMessages ==
    {ListMessage("a", items, <<>>) : items \in {l \in UndoNodeLists : Len(l) <= 1}}

NextUndo ==
    \/ \E transaction \in UndoTransactions : OnTransaction(transaction)
    \/ \E message \in UndoListMessages : OnList(message)
    \/ Refresh
    \/ \E h \in ObjHandles : HostUndo(h)
    \/ \E pid \in ItemIds : HostRedo("a", pid)

SpecUndo == Init /\ [][NextUndo]_vars

(***************************************************************************)
(* The connection commands of ui.py and the handler's callbacks for them.  *)
(* A new connection has no subscription and nothing outstanding; requests  *)
(* sent over a closed connection are never answered.                       *)
(***************************************************************************)
on_connect ==
    /\ plasticity_busy' = FALSE
    /\ files' = [f \in Files |-> Null]

on_disconnect ==
    /\ plasticity_busy' = FALSE
    /\ files' = [f \in Files |-> Null]

ConnectButton ==
    /\ ~connected
    /\ connected' = TRUE
    /\ subscribed' = FALSE
    /\ pending' = <<>>
    /\ on_connect
    /\ refacet_presets' = load_presets(preset_file)
    /\ preset_file' = FileAfterLoad(preset_file)
    /\ UNCHANGED <<objects, collections, list_filter_ids, reported>>
    /\ UNCHANGED <<scene_settings, active_refacet_preset_index>>
    /\ UNCHANGED <<historyVars, liveVars, toolVars, expandVars, cacheVars>>

DisconnectButton ==
    /\ connected
    /\ connected' = FALSE
    /\ subscribed' = FALSE
    /\ pending' = <<>>
    /\ on_disconnect
    /\ UNCHANGED <<objects, collections, list_filter_ids, reported>>
    /\ UNCHANGED <<historyVars, liveVars, presetVars, toolVars, expandVars, cacheVars>>

SubscribeAllButton ==
    /\ connected /\ ~subscribed
    /\ subscribed' = TRUE
    /\ UNCHANGED <<plasticity_busy, connected, pending>>
    /\ UNCHANGED <<sceneVars, historyVars, liveVars, presetVars, toolVars, expandVars, cacheVars>>

UnsubscribeAllButton ==
    /\ connected /\ subscribed
    /\ subscribed' = FALSE
    /\ UNCHANGED <<plasticity_busy, connected, pending>>
    /\ UNCHANGED <<sceneVars, historyVars, liveVars, presetVars, toolVars, expandVars, cacheVars>>

(***************************************************************************)
(* ui.py: the Refacet command.  One refacet_some request goes out per      *)
(* document of the selection, document "a" first; the tessellation         *)
(* parameters of the request are not modelled.                             *)
(***************************************************************************)
RefacetButton_poll(selected_objects) ==
    /\ connected
    /\ ~plasticity_busy
    /\ selected_objects # {}

RefacetRequests(selected_objects) ==
    LET Named(f) == \E o \in selected_objects : objects[o].filename = f
        filenames == SelectSeq(<<"a", "b">>, Named)
    IN [k \in DOMAIN filenames |->
          [kind |-> "refacet", filename |-> filenames[k],
           ids |-> {objects[o].pid :
                       o \in {x \in selected_objects : objects[x].filename = filenames[k]}}]]

RefacetButton(selected_objects) ==
    /\ selected_objects \subseteq Existing(objects)
    /\ RefacetButton_poll(selected_objects)
    /\ Len(pending) + Len(RefacetRequests(selected_objects)) <= MaxPending
    /\ plasticity_busy' = TRUE
    /\ pending' = pending \o RefacetRequests(selected_objects)
    /\ UNCHANGED <<connected, subscribed>>
    /\ UNCHANGED <<sceneVars, historyVars, liveVars, presetVars, toolVars, expandVars, cacheVars>>

(***************************************************************************)
(* handler.py: on_refacet, on_new_version, on_new_file.  A refacet result  *)
(* answers the oldest outstanding request, which must be a refacet         *)
(* request, and carries one tessellation per identity asked for.           *)
(***************************************************************************)
RECURSIVE RefacetObjects(_, _, _)
RefacetObjects(st, plasticity_ids, payload) ==
    IF plasticity_ids = {} THEN st
    ELSE LET plasticity_id == CHOOSE k \in plasticity_ids : \A m \in plasticity_ids : k <= m
             obj == Get(st.tables.ITEM, plasticity_id)
         IN RefacetObjects(
              IF obj = 0 THEN st
              ELSE IF st.objects[obj].mesh.groups_version >= MaxVersion
              THEN [st EXCEPT !.ok = FALSE]
              ELSE [st EXCEPT !.objects[obj].mesh = __update_mesh_ngons(@, payload)],
              plasticity_ids \ {plasticity_id}, payload)

on_refacet(filename, plasticity_ids, payload) ==
    RefacetObjects(Prepared(filename), plasticity_ids, payload)

OnRefacet(payload) ==
    /\ connected
    /\ events < MaxEvents
    /\ Len(pending) > 0 /\ Head(pending).kind = "refacet"
    /\ SceneBecomes(on_refacet(Head(pending).filename, Head(pending).ids, payload),
                    Head(pending).filename)
    /\ pending' = Tail(pending)
    /\ plasticity_busy' = FALSE
    /\ events' = events + 1
    /\ last' = [NoEvent EXCEPT !.kind = "refacet",
                               !.msg.filename = Head(pending).filename,
                               !.before = Tracked(Head(pending).filename)]
    /\ UNCHANGED <<list_filter_ids, connected, subscribed>>
    /\ UNCHANGED <<liveVars, presetVars, toolVars, expandVars, cacheVars>>

OnNewVersion(filename) ==
    /\ connected
    /\ events < MaxEvents
    /\ plasticity_busy' = FALSE
    /\ events' = events + 1
    /\ last' = [NoEvent EXCEPT !.kind = "new_version", !.msg.filename = filename]
    /\ UNCHANGED <<connected, subscribed, pending>>
    /\ UNCHANGED <<sceneVars, liveVars, presetVars, toolVars, expandVars, cacheVars>>

OnNewFile(filename) ==
    /\ connected
    /\ events < MaxEvents
    /\ plasticity_busy' = FALSE
    /\ events' = events + 1
    /\ last' = [NoEvent EXCEPT !.kind = "new_file", !.msg.filename = filename]
    /\ UNCHANGED <<connected, subscribed, pending>>
    /\ UNCHANGED <<sceneVars, liveVars, presetVars, toolVars, expandVars, cacheVars>>

(***************************************************************************)
(* SpecSync: the commands against the inbound events.  The scene holds     *)
(* solid 1 of document "a" and sheet 2 of document "b", as two live-link   *)
(* transactions of Spec leave it.                                          *)
(***************************************************************************)
SolidOfA == Node(SOLID, 1, 0, 6, PayloadQuad)
SheetOfB == Node(SHEET, 2, 0, 4, PayloadSplit)

BlankState ==
    [objects |-> [h \in ObjHandles |-> Null],
     collections |-> [h \in CollHandles |-> Null],
     tables |-> EmptyTables, reported |-> {}, ok |-> TRUE]

\* the handler's state after the transaction that adds the solid to "a", and
\* after the one that then adds the sheet to "b"
LinkedFirst(st) == __replace_objects(st, "a", <<SolidOfA>>)

LinkedSecond(st) ==
    __replace_objects([st EXCEPT !.tables = EmptyTables], "b", <<SheetOfB>>)

LinkedScene ==
    /\ objects = LinkedSecond(LinkedFirst(BlankState)).objects
    /\ collections = LinkedSecond(LinkedFirst(BlankState)).collections
    /\ files = [f \in Files |-> IF f = "a" THEN LinkedFirst(BlankState).tables
                                ELSE LinkedSecond(LinkedFirst(BlankState)).tables]
    /\ list_filter_ids = NoFilter
    /\ reported = {}

InitSync ==
    /\ LinkedScene
    /\ LiveIdle
    /\ PresetIdle
    /\ CacheIdle
    /\ plasticity_busy = FALSE
    /\ connected = TRUE
    /\ subscribed = TRUE
    /\ pending = <<>>
    /\ events = 0
    /\ last = NoEvent
    /\ call = NoCall

SyncTransactions ==
    {Transaction("a", <<>>, <<>>, <<SolidOfA>>), Transaction("b", <<2>>, <<>>, <<>>)}

SyncListMessages ==
    {ListMessage("a", <<SolidOfA>>, <<>>), ListMessage("b", <<>>, <<>>)}

NextSync ==
    \/ ConnectButton
    \/ DisconnectButton
    \/ SubscribeAllButton
    \/ UnsubscribeAllButton
    \/ \E selected_objects \in SUBSET ObjHandles, only_visible, only_selected \in BOOLEAN :
          /\ Len(pending) < MaxOutstanding
          /\ ListButton(selected_objects, only_visible, only_selected)
    \/ \E selected_objects \in SUBSET ObjHandles :
          /\ Len(pending) < MaxOutstanding
          /\ RefacetButton(selected_objects)
    \/ \E payload \in RefacetPayloads : OnRefacet(payload)
    \/ \E message \in SyncListMessages : OnList(message)
    \/ \E transaction \in SyncTransactions : OnTransaction(transaction)
    \/ \E filename \in Files : OnNewVersion(filename)
    \/ \E filename \in Files : OnNewFile(filename)

SpecSync == InitSync /\ [][NextSync]_vars

(***************************************************************************)
(* operators.py: Live Refacet.  A signature is None (Null) or the tuple     *)
(* (use_presets, preset_index, advanced, base, advanced_values, selected);  *)
(* a None inside base is the empty tuple, advanced_values = None likewise,  *)
(* and the sorted tuple of (filename, id) pairs is kept as the count of     *)
(* each pair.                                                              *)
(***************************************************************************)
SelectedKeys(selected_objects) ==
    LET KeyOf(o) == <<objects[o].filename, objects[o].pid>>
    IN [key \in {KeyOf(o) : o \in selected_objects} |->
           Cardinality({o \in selected_objects : KeyOf(o) = key})]

PresetBase(preset, advanced) ==
    <<preset.facet_tri_or_ngon,
      IF advanced THEN <<>> ELSE <<preset.tolerance>>,
      IF advanced THEN <<>> ELSE <<preset.angle>> >>

PresetAdvanced(preset) ==
    <<preset.min_width, preset.max_width,
      preset.Edge_chord_tolerance, preset.Edge_Angle_tolerance,
      preset.Face_plane_tolerance, preset.Face_Angle_tolerance,
      preset.plane_angle, preset.convex_ngons_only,
      preset.curve_max_length_enabled, preset.curve_max_length,
      preset.relative_to_bbox, preset.match_topology>>

SceneBase(scene, advanced) ==
    <<scene.prop_plasticity_facet_tri_or_ngon,
      IF advanced THEN <<>> ELSE <<scene.prop_plasticity_facet_tolerance>>,
      IF advanced THEN <<>> ELSE <<scene.prop_plasticity_facet_angle>> >>

SceneAdvanced(scene) ==
    <<scene.prop_plasticity_facet_min_width, scene.prop_plasticity_facet_max_width,
      scene.prop_plasticity_curve_chord_tolerance,
      scene.prop_plasticity_curve_angle_tolerance,
      scene.prop_plasticity_surface_plane_tolerance,
      scene.prop_plasticity_surface_angle_tolerance,
      scene.prop_plasticity_plane_angle, scene.prop_plasticity_convex_ngons_only,
      scene.prop_plasticity_curve_max_length_enabled,
      scene.prop_plasticity_curve_max_length,
      scene.prop_plasticity_relative_to_bbox, scene.prop_plasticity_match_topology>>

_build_refacet_signature(selected_objects) ==
    IF selected_objects = {} THEN Null
    ELSE
      LET advanced == scene_settings.prop_plasticity_ui_show_advanced_facet
          use_presets == /\ Len(refacet_presets) > 0
                         /\ 0 <= active_refacet_preset_index
                         /\ active_refacet_preset_index < Len(refacet_presets)
          preset_index == IF use_presets THEN active_refacet_preset_index ELSE -1
      IN [use_presets |-> use_presets,
          preset_index |-> preset_index,
          advanced |-> advanced,
          base |-> IF use_presets
                   THEN PresetBase(refacet_presets[preset_index + 1], advanced)
                   ELSE SceneBase(scene_settings, advanced),
          advanced_values |-> IF ~advanced THEN <<>>
                              ELSE IF use_presets
                              THEN PresetAdvanced(refacet_presets[preset_index + 1])
                              ELSE SceneAdvanced(scene_settings),
          selected |-> SelectedKeys(selected_objects)]

\* the timer is unregistered and the module globals are reset
TimerStops ==
    /\ _LIVE_REFACET_TIMER_RUNNING' = FALSE
    /\ _LIVE_REFACET_LAST_SIGNATURE' = Null
    /\ _LIVE_REFACET_LAST_APPLIED_SIGNATURE' = Null
    /\ polls' = <<>>

\* ensure_live_refacet_timer
ensure_live_refacet_timer ==
    IF _LIVE_REFACET_TIMER_RUNNING
    THEN UNCHANGED <<_LIVE_REFACET_TIMER_RUNNING, _LIVE_REFACET_LAST_SIGNATURE,
                     _LIVE_REFACET_LAST_APPLIED_SIGNATURE, polls>>
    ELSE /\ _LIVE_REFACET_TIMER_RUNNING' = TRUE
         /\ _LIVE_REFACET_LAST_SIGNATURE' = Null
         /\ _LIVE_REFACET_LAST_APPLIED_SIGNATURE' = Null
         /\ polls' = <<>>

stop_live_refacet_timer == TimerStops

\* the user sets Scene.prop_plasticity_live_refacet to value while the host
\* is in the given interaction mode; update_live_refacet is its callback
update_live_refacet(value, mode) ==
    /\ IF ~value
       THEN /\ prop_plasticity_live_refacet' = FALSE
            /\ stop_live_refacet_timer
       ELSE IF mode # "OBJECT"
       THEN /\ prop_plasticity_live_refacet' = FALSE
            /\ stop_live_refacet_timer
       ELSE /\ prop_plasticity_live_refacet' = TRUE
            /\ ensure_live_refacet_timer
    /\ UNCHANGED <<sceneVars, clientVars, historyVars, presetVars, toolVars, expandVars, cacheVars>>

\* C3 mutant: a poll that observes a changed signature goes on to the command
LivePoll_Eager(signature, selected_objects) ==
    IF signature = Null
    THEN [last |-> Null, applied |-> Null, invoked |-> FALSE]
    ELSE IF _LIVE_REFACET_LAST_APPLIED_SIGNATURE = signature
            \/ plasticity_busy \/ ~RefacetButton_poll(selected_objects)
    THEN [last |-> signature, applied |-> _LIVE_REFACET_LAST_APPLIED_SIGNATURE,
          invoked |-> FALSE]
    ELSE [last |-> signature, applied |-> signature, invoked |-> TRUE]

\* C4 mutant: the last applied signature is not consulted
LivePoll_Reapply(signature, selected_objects) ==
    IF signature = Null
    THEN [last |-> Null, applied |-> Null, invoked |-> FALSE]
    ELSE IF signature # _LIVE_REFACET_LAST_SIGNATURE
    THEN [last |-> signature, applied |-> _LIVE_REFACET_LAST_APPLIED_SIGNATURE,
          invoked |-> FALSE]
    ELSE IF plasticity_busy \/ ~RefacetButton_poll(selected_objects)
    THEN [last |-> signature, applied |-> _LIVE_REFACET_LAST_APPLIED_SIGNATURE,
          invoked |-> FALSE]
    ELSE [last |-> signature, applied |-> signature, invoked |-> TRUE]

\* the body of _live_refacet_timer once the scene and the mode are accepted:
\* the new values of the two globals, and whether bpy.ops.wm.refacet() runs
LivePoll(signature, selected_objects) ==
    IF signature = Null
    THEN [last |-> Null, applied |-> Null, invoked |-> FALSE]
    ELSE IF signature # _LIVE_REFACET_LAST_SIGNATURE
    THEN [last |-> signature, applied |-> _LIVE_REFACET_LAST_APPLIED_SIGNATURE,
          invoked |-> FALSE]
    ELSE IF _LIVE_REFACET_LAST_APPLIED_SIGNATURE = signature
    THEN [last |-> _LIVE_REFACET_LAST_SIGNATURE,
          applied |-> _LIVE_REFACET_LAST_APPLIED_SIGNATURE, invoked |-> FALSE]
    ELSE IF plasticity_busy
    THEN [last |-> _LIVE_REFACET_LAST_SIGNATURE,
          applied |-> _LIVE_REFACET_LAST_APPLIED_SIGNATURE, invoked |-> FALSE]
    ELSE IF ~RefacetButton_poll(selected_objects)
    THEN [last |-> _LIVE_REFACET_LAST_SIGNATURE,
          applied |-> _LIVE_REFACET_LAST_APPLIED_SIGNATURE, invoked |-> FALSE]
    ELSE [last |-> _LIVE_REFACET_LAST_SIGNATURE, applied |-> signature, invoked |-> TRUE]

\* what a poll did; the command sets the busy flag and sends its requests
LivePolled(poll, signature, selected_objects) ==
    /\ _LIVE_REFACET_LAST_SIGNATURE' = poll.last
    /\ _LIVE_REFACET_LAST_APPLIED_SIGNATURE' = poll.applied
    /\ plasticity_busy' = (plasticity_busy \/ poll.invoked)
    /\ pending' = IF poll.invoked THEN pending \o RefacetRequests(selected_objects)
                  ELSE pending
    /\ polls' = Append(polls, [signature |-> signature, invoked |-> poll.invoked,
                               ready |-> connected /\ ~plasticity_busy])

\* one tick of the registered timer, with the interaction mode and the
\* selection the host is in at that moment
_live_refacet_timer(mode, selected_objects) ==
    /\ _LIVE_REFACET_TIMER_RUNNING
    /\ Len(polls) < MaxPolls
    /\ selected_objects \subseteq Existing(objects)
    /\ Len(pending) + Len(RefacetRequests(selected_objects)) <= MaxPending
    /\ IF ~prop_plasticity_live_refacet \/ mode # "OBJECT"
       THEN /\ prop_plasticity_live_refacet' = FALSE
            /\ TimerStops
            /\ UNCHANGED <<plasticity_busy, pending>>
       ELSE /\ UNCHANGED <<prop_plasticity_live_refacet, _LIVE_REFACET_TIMER_RUNNING>>
            /\ LivePolled(LivePoll(_build_refacet_signature(selected_objects),
                                   selected_objects),
                          _build_refacet_signature(selected_objects), selected_objects)
    /\ UNCHANGED <<sceneVars, connected, subscribed, historyVars, presetVars, toolVars, expandVars, cacheVars>>

\* the user drags the tolerance slider of the scene settings
EditTolerance(value) ==
    /\ scene_settings.prop_plasticity_facet_tolerance # value
    /\ scene_settings' = [scene_settings EXCEPT !.prop_plasticity_facet_tolerance = value]
    /\ UNCHANGED <<refacet_presets, active_refacet_preset_index, preset_file>>
    /\ UNCHANGED <<sceneVars, clientVars, historyVars, liveVars, toolVars, expandVars, cacheVars>>

(***************************************************************************)
(* SpecLive: Live Refacet over the linked scene, the client connected      *)
(***************************************************************************)
Modes == {"OBJECT", "EDIT_MESH"}
Tolerances == {50, 100}
LiveSelections == {{}, {1}, {1, 2}}

NextLive ==
    \/ \E value \in BOOLEAN, mode \in Modes : update_live_refacet(value, mode)
    \/ \E mode \in Modes, selected_objects \in LiveSelections :
          _live_refacet_timer(mode, selected_objects)
    \/ \E value \in Tolerances : EditTolerance(value)
    \/ OnRefacet(RefacetNgon)

SpecLive == InitSync /\ [][NextLive]_vars

(***************************************************************************)
(* src/__init__.py: the preset commands.  Every edit saves the list; last  *)
(* remembers the file a load read, until the next command.                 *)
(***************************************************************************)
AddRefacetPresetOperator ==
    /\ Len(refacet_presets) < MaxPresets
    /\ refacet_presets' = Append(refacet_presets, SetPresetAttr(RefacetPreset, "name", "New Preset"))
    /\ preset_file' = save_presets(refacet_presets')
    /\ last' = NoEvent
    /\ UNCHANGED <<scene_settings, active_refacet_preset_index, events>>
    /\ UNCHANGED <<sceneVars, clientVars, liveVars, toolVars, expandVars, cacheVars>>

\* refacet_presets.remove(index) leaves the list alone when index is no position of it
RemoveAt(presets, index) ==
    IF 0 <= index /\ index < Len(presets)
    THEN [k \in 1 .. (Len(presets) - 1) |->
             IF k <= index THEN presets[k] ELSE presets[k + 1]]
    ELSE presets

RemoveRefacetPresetOperator ==
    /\ refacet_presets' = RemoveAt(refacet_presets, active_refacet_preset_index)
    /\ preset_file' = save_presets(refacet_presets')
    /\ active_refacet_preset_index' =
          IF Len(refacet_presets') > 0
          THEN Min2(Max2(0, active_refacet_preset_index - 1), Len(refacet_presets') - 1)
          ELSE -1
    /\ last' = NoEvent
    /\ UNCHANGED <<scene_settings, events>>
    /\ UNCHANGED <<sceneVars, clientVars, liveVars, toolVars, expandVars, cacheVars>>

\* the user edits one property of the preset at position index (0-based)
EditPreset(index, attr, value) ==
    /\ 0 <= index /\ index < Len(refacet_presets)
    /\ refacet_presets' =
          [refacet_presets EXCEPT ![index + 1] = SetPresetAttr(@, attr, value)]
    /\ preset_file' = save_presets(refacet_presets')
    /\ last' = NoEvent
    /\ UNCHANGED <<scene_settings, active_refacet_preset_index, events>>
    /\ UNCHANGED <<sceneVars, clientVars, liveVars, toolVars, expandVars, cacheVars>>

\* the user picks a preset in the list
SelectPreset(index) ==
    /\ 0 <= index /\ index < Len(refacet_presets)
    /\ active_refacet_preset_index # index
    /\ active_refacet_preset_index' = index
    /\ last' = NoEvent
    /\ UNCHANGED <<scene_settings, refacet_presets, preset_file, events>>
    /\ UNCHANGED <<sceneVars, clientVars, liveVars, toolVars, expandVars, cacheVars>>

\* load_presets runs: the handler of load_post, or the Connect command
LoadPresets ==
    /\ refacet_presets' = load_presets(preset_file)
    /\ preset_file' = FileAfterLoad(preset_file)
    /\ last' = [NoEvent EXCEPT !.kind = "load_presets", !.loaded = preset_file]
    /\ UNCHANGED <<scene_settings, active_refacet_preset_index, events>>
    /\ UNCHANGED <<sceneVars, clientVars, liveVars, toolVars, expandVars, cacheVars>>

(***************************************************************************)
(* SpecPreset: the preset list under edits, saves and loads                *)
(***************************************************************************)
PresetEdits ==
    { <<"density", 50>>, <<"density", 100>>, <<"angle", 5000>>,
      <<"tolerance", 50>>, <<"Edge_chord_tolerance", 20>>,
      <<"name", "Fine">>, <<"max_width_enabled", TRUE>> }

NextPreset ==
    \/ AddRefacetPresetOperator
    \/ RemoveRefacetPresetOperator
    \/ \E index \in 0 .. (MaxPresets - 1), edit \in PresetEdits :
          EditPreset(index, edit[1], edit[2])
    \/ \E index \in 0 .. (MaxPresets - 1) : SelectPreset(index)
    \/ LoadPresets

SpecPreset == Init /\ [][NextPreset]_vars

(***************************************************************************)
(* Tool functions of operators.py.  A tool function is applied to          *)
(* arguments drawn by the initial state; call holds the function's name,   *)
(* its arguments and, once it has returned, its result.                    *)
(***************************************************************************)
Called(fn, args) == [fn |-> fn, args |-> args, returned |-> FALSE, ret |-> <<>>]

\* the call returns ret; nothing else changes
Returns(ret) ==
    /\ ~call.returned
    /\ call' = [call EXCEPT !.returned = TRUE, !.ret = ret]
    /\ UNCHANGED <<sceneVars, clientVars, historyVars, liveVars, presetVars, expandVars, cacheVars>>

(***************************************************************************)
(* operators.py: _auto_merge_seams_on_selection.  The edit mesh bm is      *)
(*   link_faces   edge -> the faces that use it                            *)
(*   select       the faces whose select flag is set                       *)
(*   seam         the edges whose seam flag is set                         *)
(* The mesh is a strip of faces 1-2-3 with a fourth face on the edge that  *)
(* faces 1 and 2 share, and one wire edge.                                 *)
(***************************************************************************)
SeamFaces == 1 .. 4

link_faces == <<{1}, {1, 2, 4}, {2, 3}, {3}, {4}, {}>>

SeamEdges == DOMAIN link_faces

\* C12 mutant: an edge whose faces are all selected is always cleared
_auto_merge_seams_on_selection_NoBoundary(bm, selected_faces, respect_existing_seams) ==
    IF selected_faces = {} THEN [bm |-> bm, changed_to_true |-> {}, changed_to_false |-> {}]
    ELSE LET touched == {e \in SeamEdges : bm.link_faces[e] \cap bm.select # {}}
             cleared == {e \in touched : bm.link_faces[e] \subseteq bm.select}
             seam == (bm.seam \ cleared) \cup (touched \ cleared)
         IN [bm |-> [bm EXCEPT !.seam = seam],
             changed_to_true |-> seam \ bm.seam, changed_to_false |-> bm.seam \ seam]

_auto_merge_seams_on_selection(bm, selected_faces, respect_existing_seams) ==
    IF selected_faces = {} THEN [bm |-> bm, changed_to_true |-> {}, changed_to_false |-> {}]
    ELSE
      LET existing_seams == IF respect_existing_seams THEN bm.seam ELSE {}
          selected_count(e) == Cardinality({f \in bm.link_faces[e] : f \in bm.select})
          \* the edges the loop does not skip
          visited == {e \in DOMAIN bm.link_faces :
                         /\ bm.link_faces[e] # {}
                         /\ ~(respect_existing_seams /\ e \in existing_seams)
                         /\ selected_count(e) # 0}
          new_seam(e) == IF selected_count(e) = Cardinality(bm.link_faces[e])
                         THEN Cardinality(bm.link_faces[e]) = 1
                         ELSE TRUE
          changed_to_true == {e \in visited : e \notin bm.seam /\ new_seam(e)}
          changed_to_false == {e \in visited : e \in bm.seam /\ ~new_seam(e)}
      IN [bm |-> [bm EXCEPT !.seam = (@ \ changed_to_false) \cup changed_to_true],
          changed_to_true |-> changed_to_true, changed_to_false |-> changed_to_false]

\* the callers set the select flags from the face set they pass
InitSeam ==
    /\ Connected
    /\ \E seam \in SUBSET SeamEdges, select \in SUBSET SeamFaces,
          respect_existing_seams \in BOOLEAN :
          call = Called("_auto_merge_seams_on_selection",
                        [bm |-> [link_faces |-> link_faces, select |-> select, seam |-> seam],
                         selected_faces |-> select,
                         respect_existing_seams |-> respect_existing_seams])

AutoMergeSeams ==
    /\ call.fn = "_auto_merge_seams_on_selection"
    /\ Returns(_auto_merge_seams_on_selection(call.args.bm, call.args.selected_faces,
                                              call.args.respect_existing_seams))

SpecSeam == InitSeam /\ [][AutoMergeSeams]_vars

(***************************************************************************)
(* operators.py: NonOverlappingMeshesMerger.  A candidate mesh is the set  *)
(* of its world-space vertex positions, on a line; a mesh without vertices *)
(* has no entry in object_data.  Joining obj2 into obj1 gives obj1 the     *)
(* vertices of both and removes obj2 from bpy.data.objects.                *)
(***************************************************************************)
MaxCandidates == 3     \* candidate meshes of one run of the merge operator

MergePositions == 0 .. 5

MergeMeshes ==
    {{}} \cup {{p} : p \in MergePositions} \cup {{p, p + 1} : p \in 0 .. 4}

Dist(a, b) == IF a >= b THEN a - b ELSE b - a

SetMin(S) == CHOOSE m \in S : \A v \in S : m <= v

SetMax(S) == CHOOSE m \in S : \A v \in S : v <= m

_aabb_distance_sq(min_a, max_a, min_b, max_b) ==
    LET dx == Max2(Max2(min_b - max_a, min_a - max_b), 0)
    IN dx * dx

\* C30 mutant: the bounding boxes alone decide
check_overlap_BoxOnly(data_a, data_b, overlap_threshold) ==
    IF data_a = {} \/ data_b = {} THEN FALSE
    ELSE _aabb_distance_sq(SetMin(data_a), SetMax(data_a), SetMin(data_b), SetMax(data_b))
            <= overlap_threshold * overlap_threshold

check_overlap(data_a, data_b, overlap_threshold) ==
    IF data_a = {} \/ data_b = {} THEN FALSE
    ELSE IF _aabb_distance_sq(SetMin(data_a), SetMax(data_a), SetMin(data_b), SetMax(data_b))
               > overlap_threshold * overlap_threshold
    THEN FALSE
    ELSE LET tree == IF Cardinality(data_a) <= Cardinality(data_b) THEN data_b ELSE data_a
             coords == IF Cardinality(data_a) <= Cardinality(data_b) THEN data_a ELSE data_b
         IN \E co \in coords :
               LET dist == SetMin({Dist(co, v) : v \in tree})
               IN dist < overlap_threshold

\* one pass of the pair scan over mesh_objects (a sequence of vertex sets).
\* s is [verts, removed, used, merge_occurred, joined]: the vertices each
\* object has now, the objects joined away, the set used, the flag of the
\* pass and the pairs merge_meshes was called on
RECURSIVE PairScanFrom(_, _, _, _)
PairScanFrom(s, i, mesh_objects, overlap_threshold) ==
    IF i > Len(mesh_objects) THEN s
    ELSE IF i \in s.used THEN PairScanFrom(s, i + 1, mesh_objects, overlap_threshold)
    ELSE LET partners == {j \in (i + 1) .. Len(mesh_objects) :
                             /\ j \notin s.used
                             /\ ~check_overlap(mesh_objects[i], mesh_objects[j],
                                               overlap_threshold)}
         IN IF partners = {} THEN PairScanFrom(s, i + 1, mesh_objects, overlap_threshold)
            ELSE LET j == SetMin(partners)
                 IN PairScanFrom(
                      [verts |-> [s.verts EXCEPT ![i] = s.verts[i] \cup s.verts[j]],
                       removed |-> s.removed \cup {j},
                       used |-> s.used \cup {i, j},
                       merge_occurred |-> TRUE,
                       joined |-> s.joined \cup {<<mesh_objects[i], mesh_objects[j]>>}],
                      i + 1, mesh_objects, overlap_threshold)

\* the objects base_object_names still names after the pass, in order
Surviving(s) ==
    LET keep(k) == k \notin s.removed
        kept == SelectSeq([k \in DOMAIN s.verts |-> k], keep)
    IN [k \in DOMAIN kept |-> s.verts[kept[k]]]

PairScan(mesh_objects, overlap_threshold) ==
    LET s == PairScanFrom([verts |-> mesh_objects, removed |-> {}, used |-> {},
                           merge_occurred |-> FALSE, joined |-> {}],
                          1, mesh_objects, overlap_threshold)
    IN [objects |-> Surviving(s), merge_occurred |-> s.merge_occurred,
        joined |-> s.joined]

\* the while loop of execute: passes holds the objects left by each pass,
\* joined the pairs joined so far
RECURSIVE MergeWhile(_, _, _, _)
MergeWhile(mesh_objects, passes, joined, overlap_threshold) ==
    IF Len(mesh_objects) < 2
    THEN [objects |-> mesh_objects, passes |-> passes, joined |-> joined]
    ELSE LET pass == PairScan(mesh_objects, overlap_threshold)
         IN IF pass.merge_occurred
            THEN MergeWhile(pass.objects, Append(passes, pass.objects),
                            joined \cup pass.joined, overlap_threshold)
            ELSE [objects |-> pass.objects, passes |-> Append(passes, pass.objects),
                  joined |-> joined \cup pass.joined]

\* C13 mutant: the pair scan is run once
NonOverlappingMeshesMerger_OnePass(mesh_objects, overlap_threshold) ==
    IF Len(mesh_objects) < 2
    THEN [objects |-> mesh_objects, passes |-> <<>>, joined |-> {}]
    ELSE LET pass == PairScan(mesh_objects, overlap_threshold)
         IN [objects |-> pass.objects, passes |-> <<pass.objects>>,
             joined |-> pass.joined]

NonOverlappingMeshesMerger(mesh_objects, overlap_threshold) ==
    MergeWhile(mesh_objects, <<>>, {}, overlap_threshold)

InitMerge ==
    /\ Connected
    /\ \E n \in 2 .. MaxCandidates, overlap_threshold \in {1, 2} :
          \E mesh_objects \in [1 .. n -> MergeMeshes] :
             call = Called("NonOverlappingMeshesMerger",
                           [mesh_objects |-> mesh_objects,
                            overlap_threshold |-> overlap_threshold])

MergeExecute ==
    /\ call.fn = "NonOverlappingMeshesMerger"
    /\ Returns(NonOverlappingMeshesMerger(call.args.mesh_objects,
                                          call.args.overlap_threshold))

SpecMerge == InitMerge /\ [][MergeExecute]_vars

(***************************************************************************)
(* operators.py: SimilarGeometrySelector.  A mesh object is its vertex     *)
(* count, its polygon count and its total polygon area; the threshold is   *)
(* counted in percent.  x / active <= threshold is compared as             *)
(* 100 * x <= threshold * active, the counts of the active object being    *)
(* positive.  The command selects; it deselects nothing.                   *)
(***************************************************************************)
SimilarObjects ==
    [vert_count : {8, 10, 12}, poly_count : {4, 5, 6}, surface_area : {80, 100, 120}]

Within(value, active_value, similarity_threshold) ==
    100 * Dist(value, active_value) <= similarity_threshold * active_value

\* the objects selected after the command, objs being scene.objects, active
\* the position of the active object, selected the objects selected before
SimilarGeometrySelector(objs, active, selected, similarity_threshold) ==
    selected \cup
      {o \in DOMAIN objs :
          /\ Within(objs[o].vert_count, objs[active].vert_count, similarity_threshold)
          /\ Within(objs[o].poly_count, objs[active].poly_count, similarity_threshold)
          /\ Within(objs[o].surface_area, objs[active].surface_area, similarity_threshold)}

InitSimilar ==
    /\ Connected
    /\ \E a \in SimilarObjects, b \in SimilarObjects, active \in {1, 2},
          similarity_threshold \in {20, 25} :
          call = Called("SimilarGeometrySelector",
                        [objects |-> <<a, b>>, active |-> active,
                         similarity_threshold |-> similarity_threshold])

SimilarExecute ==
    /\ call.fn = "SimilarGeometrySelector"
    /\ Returns(SimilarGeometrySelector(call.args.objects, call.args.active, {},
                                       call.args.similarity_threshold))

SpecSimilar == InitSimilar /\ [][SimilarExecute]_vars

(***************************************************************************)
(* Resolution of the face-group table of a mesh.  groups is the flat table *)
(* start, count, start, count, ...; face_ids pairs one face identity with  *)
(* each group; a mesh is its polygons (loop_start, loop_total) and its     *)
(* number of loops.  NoFaceId stands for a polygon without an identity.    *)
(***************************************************************************)
NoFaceId == 0

MaxPolygons == 2

MaxGroups == 2

PolygonSides == {3, 4}

FaceIds == {1, 2}

GroupOffsets == 0 .. (MaxPolygons * 4)

RECURSIVE MeshFrom(_, _, _)
MeshFrom(sides, loop_start, polygons) ==
    IF sides = <<>> THEN [polygons |-> polygons, loops |-> loop_start]
    ELSE MeshFrom(Tail(sides), loop_start + Head(sides),
                  Append(polygons, [loop_start |-> loop_start,
                                    loop_total |-> Head(sides)]))

GroupMeshes ==
    {MeshFrom(sides, 0, <<>>) :
        sides \in UNION {[1 .. n -> PolygonSides] : n \in 0 .. MaxPolygons}}

RECURSIVE Flat(_)
Flat(pairs) ==
    IF pairs = <<>> THEN <<>>
    ELSE <<Head(pairs)[1], Head(pairs)[2]>> \o Flat(Tail(pairs))

GroupTables ==
    {Flat(pairs) :
        pairs \in UNION {[1 .. n -> GroupOffsets \X GroupOffsets] : n \in 0 .. MaxGroups}}

\* the first group carries identity 1: the identities are interchangeable
GroupFaceIds(n) ==
    {ids \in [1 .. n -> FaceIds] : n > 0 => ids[1] = 1}

RECURSIVE GroupEnds(_, _, _, _)
GroupEnds(groups, idx, counts_total, max_end) ==
    IF idx >= Len(groups) THEN [counts_total |-> counts_total, max_end |-> max_end]
    ELSE LET start == groups[idx + 1]
             count == IF idx + 1 < Len(groups) THEN groups[idx + 2] ELSE 0
         IN GroupEnds(groups, idx + 2, counts_total + count,
                      Max2(max_end, start + count))

_group_index_mode(groups, mesh) ==
    IF groups = <<>> THEN "loops"
    ELSE LET ends == GroupEnds(groups, 0, 0, 0)
         IN IF ends.max_end <= Len(mesh.polygons) THEN "faces"
            ELSE IF ends.max_end <= mesh.loops THEN "loops"
            ELSE IF ends.counts_total = Len(mesh.polygons) THEN "faces"
            ELSE "loops"

\* list.sort(key = start): stable
RECURSIVE InsertByStart(_, _)
InsertByStart(sorted, item) ==
    IF sorted = <<>> THEN <<item>>
    ELSE IF Head(sorted).start <= item.start
         THEN <<Head(sorted)>> \o InsertByStart(Tail(sorted), item)
         ELSE <<item>> \o sorted

RECURSIVE _iter_group_ranges_from(_, _, _, _)
_iter_group_ranges_from(groups, face_ids, group_idx, ranges) ==
    IF group_idx >= Min2(Len(groups) \div 2, Len(face_ids)) THEN ranges
    ELSE LET item == [start |-> groups[group_idx * 2 + 1],
                      count |-> groups[group_idx * 2 + 2],
                      face_id |-> face_ids[group_idx + 1]]
         IN _iter_group_ranges_from(groups, face_ids, group_idx + 1,
                IF item.count <= 0 THEN ranges ELSE InsertByStart(ranges, item))

_iter_group_ranges(groups, face_ids) ==
    _iter_group_ranges_from(groups, face_ids, 0, <<>>)

\* the identity a slot ends with: that of the first range, in order, whose
\* clipped span start .. min(start + count, slot_count) - 1 holds the slot
RECURSIVE FirstRangeOver(_, _, _)
FirstRangeOver(ranges, index, slot_count) ==
    IF ranges = <<>> THEN NoFaceId
    ELSE IF /\ Head(ranges).start >= 0
            /\ Head(ranges).count > 0
            /\ index >= Head(ranges).start
            /\ index < Min2(Head(ranges).start + Head(ranges).count, slot_count)
         THEN Head(ranges).face_id
         ELSE FirstRangeOver(Tail(ranges), index, slot_count)

_face_id_coverage(face_id_by_face) ==
    Cardinality({i \in DOMAIN face_id_by_face : face_id_by_face[i] # NoFaceId})

_build_face_id_map_faces(ranges, mesh) ==
    [face_index \in 1 .. Len(mesh.polygons) |->
        FirstRangeOver(ranges, face_index - 1, Len(mesh.polygons))]

\* the identity seen most often among the loops of a polygon, the first to
\* reach the greatest count winning
RECURSIVE BestFaceId(_, _, _, _, _, _, _)
BestFaceId(ranges, mesh, loop_index, loop_end, counts, best_count, best_face_id) ==
    IF loop_index >= loop_end THEN best_face_id
    ELSE LET face_id == FirstRangeOver(ranges, loop_index, mesh.loops)
         IN IF face_id = NoFaceId
            THEN BestFaceId(ranges, mesh, loop_index + 1, loop_end, counts,
                            best_count, best_face_id)
            ELSE IF counts[face_id] + 1 > best_count
            THEN BestFaceId(ranges, mesh, loop_index + 1, loop_end,
                            [counts EXCEPT ![face_id] = @ + 1],
                            counts[face_id] + 1, face_id)
            ELSE BestFaceId(ranges, mesh, loop_index + 1, loop_end,
                            [counts EXCEPT ![face_id] = @ + 1],
                            best_count, best_face_id)

_build_face_id_map_loops(ranges, mesh) ==
    [face_index \in 1 .. Len(mesh.polygons) |->
        BestFaceId(ranges, mesh, mesh.polygons[face_index].loop_start,
                   mesh.polygons[face_index].loop_start
                     + mesh.polygons[face_index].loop_total,
                   [f \in FaceIds |-> 0], 0, NoFaceId)]

\* one assumed basis, the loops, whatever the table
_build_face_id_map_LoopsOnly(groups, face_ids, mesh) ==
    _build_face_id_map_loops(_iter_group_ranges(groups, face_ids), mesh)

_build_face_id_map(groups, face_ids, mesh) ==
    IF groups = <<>> \/ face_ids = <<>> \/ Len(mesh.polygons) = 0
       \/ _iter_group_ranges(groups, face_ids) = <<>>
    THEN [face_index \in 1 .. Len(mesh.polygons) |-> NoFaceId]
    ELSE IF _group_index_mode(groups, mesh) = "faces"
    THEN IF _face_id_coverage(_build_face_id_map_loops(_iter_group_ranges(groups, face_ids), mesh))
              > _face_id_coverage(_build_face_id_map_faces(_iter_group_ranges(groups, face_ids), mesh))
         THEN _build_face_id_map_loops(_iter_group_ranges(groups, face_ids), mesh)
         ELSE _build_face_id_map_faces(_iter_group_ranges(groups, face_ids), mesh)
    ELSE IF _face_id_coverage(_build_face_id_map_faces(_iter_group_ranges(groups, face_ids), mesh))
              > _face_id_coverage(_build_face_id_map_loops(_iter_group_ranges(groups, face_ids), mesh))
         THEN _build_face_id_map_faces(_iter_group_ranges(groups, face_ids), mesh)
         ELSE _build_face_id_map_loops(_iter_group_ranges(groups, face_ids), mesh)

InitGroups ==
    /\ Connected
    /\ \E mesh \in GroupMeshes, groups \in GroupTables :
          \E face_ids \in GroupFaceIds(Len(groups) \div 2) :
             call = Called("_build_face_id_map",
                           [groups |-> groups, face_ids |-> face_ids, mesh |-> mesh])

BuildFaceIdMap ==
    /\ call.fn = "_build_face_id_map"
    /\ Returns(_build_face_id_map(call.args.groups, call.args.face_ids, call.args.mesh))

SpecGroups == InitGroups /\ [][BuildFaceIdMap]_vars

(***************************************************************************)
(* The fillet heuristic.  Angles are in hundredths of a degree, the area   *)
(* ratio in hundredths; group 1 is the group examined, adjacency its set   *)
(* of neighbour groups.                                                    *)
(***************************************************************************)
FilletGroups == 1 .. 3

FilletAreas == {0, 3, 5, 6, 7, 50, 100}

FilletAngles == {499, 500, 501}

\* the loop over the neighbours, starting from 0.0
max_neighbor_area(group_areas, neighbors) ==
    SetMax({0} \cup {group_areas[neighbor_id] : neighbor_id \in neighbors})

is_fillet_group_Strict(group_id, group_areas, group_max_angles, adjacency, min_curvature_angle, max_area_ratio, min_adjacent_groups) ==
    IF group_max_angles[group_id] <= min_curvature_angle THEN FALSE
    ELSE IF Cardinality(adjacency[group_id]) < min_adjacent_groups THEN FALSE
    ELSE IF max_neighbor_area(group_areas, adjacency[group_id]) <= 0 THEN FALSE
    ELSE 100 * group_areas[group_id]
            < max_neighbor_area(group_areas, adjacency[group_id]) * max_area_ratio

is_fillet_group(group_id, group_areas, group_max_angles, adjacency, min_curvature_angle, max_area_ratio, min_adjacent_groups) ==
    IF group_max_angles[group_id] < min_curvature_angle THEN FALSE
    ELSE IF Cardinality(adjacency[group_id]) < min_adjacent_groups THEN FALSE
    ELSE IF max_neighbor_area(group_areas, adjacency[group_id]) <= 0 THEN FALSE
    ELSE 100 * group_areas[group_id]
            <= max_neighbor_area(group_areas, adjacency[group_id]) * max_area_ratio

InitFillet ==
    /\ Connected
    /\ \E group_areas \in [FilletGroups -> FilletAreas], angle \in FilletAngles,
          neighbors \in SUBSET {2, 3}, max_area_ratio \in {6, 100},
          min_adjacent_groups \in {1, 2} :
          call = Called("is_fillet_group",
                        [group_id |-> 1, group_areas |-> group_areas,
                         group_max_angles |-> <<angle, 0, 0>>,
                         adjacency |-> <<neighbors, {}, {}>>,
                         min_curvature_angle |-> 500,
                         max_area_ratio |-> max_area_ratio,
                         min_adjacent_groups |-> min_adjacent_groups])

IsFilletGroup ==
    /\ call.fn = "is_fillet_group"
    /\ Returns(is_fillet_group(call.args.group_id, call.args.group_areas,
                               call.args.group_max_angles, call.args.adjacency,
                               call.args.min_curvature_angle, call.args.max_area_ratio,
                               call.args.min_adjacent_groups))

SpecFillet == InitFillet /\ [][IsFilletGroup]_vars

(***************************************************************************)
(* The parameters of the Refacet command.  Lengths and tolerances are in   *)
(* 1e-4 units, angles in 1e-4 radians.  presets is scene.refacet_presets   *)
(* with the active preset first, scene the scene properties read.          *)
(***************************************************************************)
PiOver4 == 7854

\* floor(x * sqrt(0.5))
TimesSqrtHalf(x) ==
    CHOOSE r \in 0 .. x : 2 * r * r <= x * x /\ x * x < 2 * (r + 1) * (r + 1)

MaxSidesOf(facet_tri_or_ngon) ==
    IF facet_tri_or_ngon = "TRI" THEN 3
    ELSE IF facet_tri_or_ngon = "QUAD" THEN 4 ELSE 128

\* the values read from the active preset when there is one, from the scene
\* otherwise
BasicFacet(scene, presets) ==
    IF Len(presets) > 0
    THEN [tolerance |-> presets[1].tolerance, angle |-> presets[1].angle,
          facet_tri_or_ngon |-> presets[1].facet_tri_or_ngon]
    ELSE [tolerance |-> scene.prop_plasticity_facet_tolerance,
          angle |-> scene.prop_plasticity_facet_angle,
          facet_tri_or_ngon |-> scene.prop_plasticity_facet_tri_or_ngon]

AdvancedFacet(scene, presets) ==
    IF Len(presets) > 0
    THEN [surface_plane_tolerance |-> presets[1].Face_plane_tolerance,
          surface_plane_angle |-> presets[1].Face_Angle_tolerance,
          curve_chord_tolerance |-> presets[1].Edge_chord_tolerance,
          curve_chord_angle |-> presets[1].Edge_Angle_tolerance,
          min_width |-> IF presets[1].min_width_enabled THEN presets[1].min_width ELSE 0,
          max_width |-> IF presets[1].max_width_enabled THEN presets[1].max_width ELSE 0,
          plane_angle |-> presets[1].plane_angle,
          convex_ngons_only |-> presets[1].convex_ngons_only,
          curve_max_length_enabled |-> presets[1].curve_max_length_enabled,
          curve_max_length |-> presets[1].curve_max_length,
          relative_to_bbox |-> presets[1].relative_to_bbox,
          match_topology |-> presets[1].match_topology]
    ELSE [surface_plane_tolerance |-> scene.prop_plasticity_surface_plane_tolerance,
          surface_plane_angle |-> scene.prop_plasticity_surface_angle_tolerance,
          curve_chord_tolerance |-> scene.prop_plasticity_curve_chord_tolerance,
          curve_chord_angle |-> scene.prop_plasticity_curve_angle_tolerance,
          min_width |-> IF scene.prop_plasticity_facet_min_width_enabled
                        THEN scene.prop_plasticity_facet_min_width ELSE 0,
          max_width |-> IF scene.prop_plasticity_facet_max_width_enabled
                        THEN scene.prop_plasticity_facet_max_width ELSE 0,
          plane_angle |-> scene.prop_plasticity_plane_angle,
          convex_ngons_only |-> scene.prop_plasticity_convex_ngons_only,
          curve_max_length_enabled |-> scene.prop_plasticity_curve_max_length_enabled,
          curve_max_length |-> scene.prop_plasticity_curve_max_length,
          relative_to_bbox |-> scene.prop_plasticity_relative_to_bbox,
          match_topology |-> scene.prop_plasticity_match_topology]

ClampedMaxWidth(min_width, max_width) ==
    IF max_width > 0 /\ min_width > 0 /\ max_width < min_width
    THEN min_width ELSE max_width

\* the keyword arguments of refacet_some, clamp being the step that raises
\* max_width
RefacetParametersWith(scene, presets, clamp) ==
    LET basic == BasicFacet(scene, presets)
        max_sides == MaxSidesOf(basic.facet_tri_or_ngon)
    IN IF ~scene.prop_plasticity_ui_show_advanced_facet
       THEN [relative_to_bbox |-> TRUE,
             curve_chord_tolerance |-> basic.tolerance,
             curve_chord_angle |-> basic.angle,
             surface_plane_tolerance |-> basic.tolerance,
             surface_plane_angle |-> basic.angle,
             match_topology |-> TRUE,
             max_sides |-> max_sides,
             plane_angle |-> IF max_sides > 4 THEN PiOver4 ELSE 0,
             min_width |-> 0, max_width |-> 0, curve_chord_max |-> 0,
             shape |-> "CUT"]
       ELSE LET adv == AdvancedFacet(scene, presets)
                max_width == IF clamp THEN ClampedMaxWidth(adv.min_width, adv.max_width)
                             ELSE adv.max_width
            IN [relative_to_bbox |-> adv.relative_to_bbox,
                curve_chord_tolerance |-> adv.curve_chord_tolerance,
                curve_chord_angle |-> adv.curve_chord_angle,
                surface_plane_tolerance |-> adv.surface_plane_tolerance,
                surface_plane_angle |-> adv.surface_plane_angle,
                match_topology |-> adv.match_topology,
                max_sides |-> max_sides,
                plane_angle |-> adv.plane_angle,
                min_width |-> adv.min_width,
                max_width |-> max_width,
                curve_chord_max |-> IF adv.curve_max_length_enabled
                                    THEN adv.curve_max_length
                                    ELSE IF max_width > 0 THEN TimesSqrtHalf(max_width)
                                    ELSE 0,
                shape |-> IF adv.convex_ngons_only /\ max_sides > 4
                          THEN "CONVEX" ELSE "CUT"]

RefacetParameters_NoClamp(scene, presets) == RefacetParametersWith(scene, presets, FALSE)

RefacetParameters(scene, presets) == RefacetParametersWith(scene, presets, TRUE)

\* the settings varied, and the ones held fixed
FacetChoices ==
    [facet_tri_or_ngon : {"TRI", "QUAD", "NGON"},
     min_width : {0, 50, 150}, min_width_enabled : BOOLEAN,
     max_width : {1, 100, 200}, max_width_enabled : BOOLEAN,
     convex_ngons_only : BOOLEAN,
     curve_max_length_enabled : BOOLEAN, curve_max_length : {0, 30}]

FacetPreset(c) ==
    [tolerance |-> 100, angle |-> 4500,
     facet_tri_or_ngon |-> c.facet_tri_or_ngon,
     Face_plane_tolerance |-> 110, Face_Angle_tolerance |-> 4600,
     Edge_chord_tolerance |-> 120, Edge_Angle_tolerance |-> 4700,
     min_width |-> c.min_width, min_width_enabled |-> c.min_width_enabled,
     max_width |-> c.max_width, max_width_enabled |-> c.max_width_enabled,
     plane_angle |-> 5000, convex_ngons_only |-> c.convex_ngons_only,
     curve_max_length_enabled |-> c.curve_max_length_enabled,
     curve_max_length |-> c.curve_max_length,
     relative_to_bbox |-> FALSE, match_topology |-> FALSE]

FacetScene(c, show_advanced) ==
    [prop_plasticity_ui_show_advanced_facet |-> show_advanced,
     prop_plasticity_facet_tolerance |-> 200,
     prop_plasticity_facet_angle |-> 3500,
     prop_plasticity_facet_tri_or_ngon |-> c.facet_tri_or_ngon,
     prop_plasticity_surface_plane_tolerance |-> 210,
     prop_plasticity_surface_angle_tolerance |-> 3600,
     prop_plasticity_curve_chord_tolerance |-> 220,
     prop_plasticity_curve_angle_tolerance |-> 3700,
     prop_plasticity_facet_min_width |-> c.min_width,
     prop_plasticity_facet_min_width_enabled |-> c.min_width_enabled,
     prop_plasticity_facet_max_width |-> c.max_width,
     prop_plasticity_facet_max_width_enabled |-> c.max_width_enabled,
     prop_plasticity_plane_angle |-> 6000,
     prop_plasticity_convex_ngons_only |-> c.convex_ngons_only,
     prop_plasticity_curve_max_length_enabled |-> c.curve_max_length_enabled,
     prop_plasticity_curve_max_length |-> c.curve_max_length,
     prop_plasticity_relative_to_bbox |-> TRUE,
     prop_plasticity_match_topology |-> TRUE]

\* the scene properties when a preset is active: they play no part
FacetSceneIdle ==
    [facet_tri_or_ngon |-> "NGON", min_width |-> 150, min_width_enabled |-> TRUE,
     max_width |-> 100, max_width_enabled |-> TRUE, convex_ngons_only |-> TRUE,
     curve_max_length_enabled |-> FALSE, curve_max_length |-> 0]

InitFacet ==
    /\ Connected
    /\ \E c \in FacetChoices, show_advanced \in BOOLEAN, with_preset \in BOOLEAN :
          call = Called("RefacetParameters",
                        IF with_preset
                        THEN [scene |-> FacetScene(FacetSceneIdle, show_advanced),
                              presets |-> <<FacetPreset(c)>>]
                        ELSE [scene |-> FacetScene(c, show_advanced),
                              presets |-> <<>>])

ResolveRefacetParameters ==
    /\ call.fn = "RefacetParameters"
    /\ Returns(RefacetParameters(call.args.scene, call.args.presets))

SpecFacet == InitFacet /\ [][ResolveRefacetParameters]_vars

(***************************************************************************)
(* operators.py: Live Expand.  The per-object tracking dictionaries are    *)
(* reduced to the set of objects they hold an entry for; call keeps what   *)
(* the last poll saw and returned.                                         *)
(***************************************************************************)
ExpandCleared ==
    _LIVE_EXPAND_BASE_SELECTION' = {}

ensure_live_expand_timer ==
    /\ _LIVE_EXPAND_TIMER_RUNNING' = TRUE
    /\ UNCHANGED _LIVE_EXPAND_BASE_SELECTION

stop_live_expand_timer ==
    /\ _LIVE_EXPAND_TIMER_RUNNING' = FALSE
    /\ ExpandCleared

\* the update callback of Scene.prop_plasticity_live_expand
update_live_expand(value) ==
    /\ prop_plasticity_live_expand' = value
    /\ IF value THEN ensure_live_expand_timer ELSE stop_live_expand_timer
    /\ UNCHANGED <<sceneVars, clientVars, historyVars, liveVars, presetVars, toolVars, cacheVars>>

\* the value a poll returns: None unregisters the timer
LiveExpandReturn_ModeGuard(mode) ==
    IF ~prop_plasticity_live_expand \/ mode # "EDIT_MESH" THEN "None" ELSE "interval"

LiveExpandReturn(mode) ==
    IF ~prop_plasticity_live_expand THEN "None" ELSE "interval"

\* one tick of the registered timer: suspended is _LIVE_EXPAND_SUSPENDED at
\* that moment, edit_objects the tagged mesh objects in edit mode
_live_expand_timer(mode, suspended, edit_objects) ==
    /\ _LIVE_EXPAND_TIMER_RUNNING
    /\ edit_objects \subseteq Existing(objects)
    /\ mode # "EDIT_MESH" => edit_objects = {}
    /\ call' = [fn |-> "_live_expand_timer",
                args |-> [mode |-> mode, suspended |-> suspended,
                          edit_objects |-> edit_objects],
                returned |-> TRUE, ret |-> LiveExpandReturn(mode)]
    /\ _LIVE_EXPAND_TIMER_RUNNING' = (LiveExpandReturn(mode) # "None")
    /\ IF ~prop_plasticity_live_expand THEN ExpandCleared
       ELSE IF suspended THEN UNCHANGED _LIVE_EXPAND_BASE_SELECTION
       ELSE IF mode # "EDIT_MESH" THEN ExpandCleared
       ELSE _LIVE_EXPAND_BASE_SELECTION' = edit_objects
    /\ UNCHANGED prop_plasticity_live_expand
    /\ UNCHANGED <<sceneVars, clientVars, historyVars, liveVars, presetVars, cacheVars>>

\* bpy.context.scene becomes another scene: the toggles read by the next
\* polls are that scene's, and no update callback runs
SceneChange(live_refacet, live_expand) ==
    /\ prop_plasticity_live_refacet' = live_refacet
    /\ prop_plasticity_live_expand' = live_expand
    /\ UNCHANGED <<_LIVE_REFACET_TIMER_RUNNING, _LIVE_REFACET_LAST_SIGNATURE,
                   _LIVE_REFACET_LAST_APPLIED_SIGNATURE, polls,
                   _LIVE_EXPAND_TIMER_RUNNING, _LIVE_EXPAND_BASE_SELECTION>>
    /\ UNCHANGED <<sceneVars, clientVars, historyVars, presetVars, toolVars, cacheVars>>

TimerSelections == {{}, {1}}

NextTimers ==
    \/ \E live_refacet \in BOOLEAN, live_expand \in BOOLEAN :
          SceneChange(live_refacet, live_expand)
    \/ \E value \in BOOLEAN, mode \in Modes : update_live_refacet(value, mode)
    \/ \E mode \in Modes, selected_objects \in TimerSelections :
          _live_refacet_timer(mode, selected_objects)
    \/ \E value \in BOOLEAN : update_live_expand(value)
    \/ \E mode \in Modes, suspended \in BOOLEAN, edit_objects \in TimerSelections :
          _live_expand_timer(mode, suspended, edit_objects)

SpecTimers == InitSync /\ [][NextTimers]_vars

(***************************************************************************)
(* operators.py: SelectByFaceIDOperator ('Select same surface').  The edit *)
(* mesh has faces 1 .. 5: group 1 holds faces 1 and 2, group 2 (a narrow   *)
(* curved strip between the other two) face 3, group 3 face 4; face 5 is   *)
(* in no group.  Vertex adjacency is left off.                             *)
(***************************************************************************)
SurfaceFaces == 1 .. 5

SurfaceGroupFaces == <<{1, 2}, {3}, {4}>>

SurfaceAdjacency == <<{2}, {1, 3}, {2}>>

SurfaceAreas == <<100, 5, 100>>

SurfaceAngles == <<0, 600, 0>>

collect_group_selection(selected) ==
    [selected_group_indices |->
        {g \in DOMAIN SurfaceGroupFaces : SurfaceGroupFaces[g] \cap selected # {}},
     partial_group_indices |->
        {g \in DOMAIN SurfaceGroupFaces :
            /\ SurfaceGroupFaces[g] \cap selected # {}
            /\ ~(SurfaceGroupFaces[g] \subseteq selected)}]

\* the groups selected in the end, and the faces whose select flag is set
expand_plasticity_selection(selected, op) ==
    LET found == collect_group_selection(selected)
        seed_group_indices == IF found.partial_group_indices # {}
                              THEN found.partial_group_indices
                              ELSE found.selected_group_indices
        candidate_groups ==
            UNION {SurfaceAdjacency[g] : g \in seed_group_indices} \ seed_group_indices
        fillet_group_indices ==
            IF op.select_adjacent_fillets /\ seed_group_indices # {}
            THEN {g \in candidate_groups :
                     is_fillet_group(g, SurfaceAreas, SurfaceAngles, SurfaceAdjacency,
                                     op.fillet_min_curvature_angle,
                                     op.fillet_max_area_ratio,
                                     op.fillet_min_adjacent_groups)}
            ELSE {}
        final_group_indices ==
            found.selected_group_indices \cup seed_group_indices \cup fillet_group_indices
    IN [final_group_indices |-> final_group_indices,
        selected |-> selected \cup UNION {SurfaceGroupFaces[g] : g \in final_group_indices}]

\* the scene settings execute writes from the operator's own properties
SelectSettingsOf(op) ==
    [prop_plasticity_select_adjacent_fillets |-> op.select_adjacent_fillets,
     prop_plasticity_select_fillet_min_curvature_angle |-> op.fillet_min_curvature_angle,
     prop_plasticity_select_fillet_max_area_ratio |-> op.fillet_max_area_ratio,
     prop_plasticity_select_fillet_min_adjacent_groups |-> op.fillet_min_adjacent_groups,
     prop_plasticity_select_include_vertex_adjacency |-> op.include_vertex_adjacency,
     prop_plasticity_select_vertex_adjacent_max_length_ratio |->
         op.vertex_adjacent_max_length_ratio]

\* execute: the result, and the scene settings and face selection it leaves
SelectByFaceIDOperator(op, mesh, selected) ==
    IF mesh.groups = <<>> \/ mesh.face_ids = <<>>
    THEN [result |-> "CANCELLED", scene |-> SelectSettingsOf(op), selected |-> selected]
    ELSE IF expand_plasticity_selection(selected, op).final_group_indices = {}
    THEN [result |-> "CANCELLED", scene |-> SelectSettingsOf(op),
          selected |-> expand_plasticity_selection(selected, op).selected]
    ELSE [result |-> "FINISHED", scene |-> SelectSettingsOf(op),
          selected |-> expand_plasticity_selection(selected, op).selected]

SelectOperatorProperties ==
    [select_adjacent_fillets : BOOLEAN, fillet_min_curvature_angle : {500},
     fillet_max_area_ratio : {6}, fillet_min_adjacent_groups : {1, 2},
     include_vertex_adjacency : {FALSE}, vertex_adjacent_max_length_ratio : {50}]

\* the scene settings before the command: registered defaults, the fillet
\* toggle as the panel left it
SelectSceneSettings ==
    {SelectSettingsOf(op) : op \in {p \in SelectOperatorProperties :
                                       p.fillet_min_adjacent_groups = 2}}

InitSelect ==
    /\ Connected
    /\ \E scene \in SelectSceneSettings, op \in SelectOperatorProperties,
          groups \in {<<>>, <<0, 2, 2, 1, 3, 1>>}, face_ids \in {<<>>, <<11, 12, 13>>},
          selected \in SUBSET SurfaceFaces :
          call = Called("SelectByFaceIDOperator",
                        [scene |-> scene, op |-> op,
                         mesh |-> [groups |-> groups, face_ids |-> face_ids],
                         selected |-> selected])

SelectByFaceIDExecute ==
    /\ call.fn = "SelectByFaceIDOperator"
    /\ Returns(SelectByFaceIDOperator(call.args.op, call.args.mesh, call.args.selected))

SpecSelect == InitSelect /\ [][SelectByFaceIDExecute]_vars

(***************************************************************************)
(* The Live Refacet signature against what the Refacet command sends, for  *)
(* a state of the settings and the state one edit later.  The active       *)
(* preset, when there is one, is the first; selected is the set of         *)
(* (filename, identity) pairs of the selected tagged objects.              *)
(***************************************************************************)
RefacetSignature(scene, presets, selected) ==
    IF selected = {} THEN Null
    ELSE [use_presets |-> Len(presets) > 0,
          preset_index |-> IF Len(presets) > 0 THEN 0 ELSE -1,
          advanced |-> scene.prop_plasticity_ui_show_advanced_facet,
          base |-> IF Len(presets) > 0
                   THEN PresetBase(presets[1], scene.prop_plasticity_ui_show_advanced_facet)
                   ELSE SceneBase(scene, scene.prop_plasticity_ui_show_advanced_facet),
          advanced_values |->
              IF ~scene.prop_plasticity_ui_show_advanced_facet THEN <<>>
              ELSE IF Len(presets) > 0 THEN PresetAdvanced(presets[1])
              ELSE SceneAdvanced(scene),
          selected |-> selected]

\* what RefacetButton.execute sends for the selection
RefacetSent(scene, presets, selected) ==
    [plasticity_ids |-> selected, parameters |-> RefacetParameters(scene, presets)]

FacetEdits ==
    {"facet_tri_or_ngon", "min_width", "min_width_enabled", "max_width",
     "max_width_enabled", "convex_ngons_only", "curve_max_length_enabled",
     "curve_max_length"}

\* the settings c with one of them given another value
Edited(c) ==
    {d \in FacetChoices : Cardinality({f \in FacetEdits : d[f] # c[f]}) = 1}

FacetState(c, show_advanced, with_preset) ==
    IF with_preset
    THEN [scene |-> FacetScene(FacetSceneIdle, show_advanced),
          presets |-> <<FacetPreset(c)>>]
    ELSE [scene |-> FacetScene(c, show_advanced), presets |-> <<>>]

InitSignature ==
    /\ Connected
    /\ \E c \in FacetChoices, show_advanced \in BOOLEAN, with_preset \in BOOLEAN :
          \E d \in Edited(c) :
             call = Called("_build_refacet_signature",
                           [before |-> FacetState(c, show_advanced, with_preset),
                            after |-> FacetState(d, show_advanced, with_preset),
                            selected |-> {<<"a", 1>>}])

\* the signature and the Refacet request of both states
CompareSignatures ==
    /\ call.fn = "_build_refacet_signature"
    /\ Returns([signature_before |-> RefacetSignature(call.args.before.scene,
                                        call.args.before.presets, call.args.selected),
                signature_after |-> RefacetSignature(call.args.after.scene,
                                        call.args.after.presets, call.args.selected),
                sent_before |-> RefacetSent(call.args.before.scene,
                                        call.args.before.presets, call.args.selected),
                sent_after |-> RefacetSent(call.args.after.scene,
                                        call.args.after.presets, call.args.selected)])

SpecSignature == InitSignature /\ [][CompareSignatures]_vars

(***************************************************************************)
(***************************************************************************)
(* The stored group table read back.  A payload mesh has one vertex per    *)
(* corner, so validation keeps every polygon; the resolver reads the host  *)
(* mesh through its polygons and its number of loops.                      *)
(***************************************************************************)
HostMesh(mesh) ==
    [EmptyMesh EXCEPT !.verts = [i \in 1 .. mesh.loops |-> i],
                      !.loops = [i \in 1 .. mesh.loops |-> i - 1],
                      !.polys = mesh.polygons]

ResolverMesh(mesh) == [polygons |-> mesh.polys, loops |-> Len(mesh.loops)]

\* the identity of each polygon in the attribute the handler compresses: the
\* built per-corner array after validation and normalisation
AssignedFaceIds(mesh, groups, face_ids) ==
    LET v == Validate(mesh, _build_loop_face_ids(mesh, groups, face_ids))
        attr == _normalize_loop_face_ids(v.mesh, v.attr)
    IN [p \in 1 .. Len(v.mesh.polys) |->
          IF Len(attr) = 0 THEN NoFaceId
          ELSE IF attr[v.mesh.polys[p].loop_start + 1] < 0 THEN NoFaceId
          ELSE attr[v.mesh.polys[p].loop_start + 1]]

\* the stored table of the rewritten mesh, resolved as the selection
\* commands resolve it
StoredFaceIds(mesh) ==
    _build_face_id_map(mesh.groups, mesh.face_ids, ResolverMesh(mesh))

\* payload tables: starts and counts up to the loops of two triangles
StoredTables ==
    {Flat(pairs) :
        pairs \in UNION {[1 .. n -> (0 .. (MaxPolygons * 3)) \X (0 .. (MaxPolygons * 3))] :
                            n \in 0 .. MaxGroups}}

InitStored ==
    /\ Connected
    /\ \E mesh \in GroupMeshes, groups \in StoredTables :
          \E face_ids \in GroupFaceIds(Len(groups) \div 2) :
             call = Called("_apply_plasticity_groups_and_normals",
                           [groups |-> groups, face_ids |-> face_ids,
                            mesh |-> HostMesh(mesh)])

ApplyAndResolve ==
    /\ call.fn = "_apply_plasticity_groups_and_normals"
    /\ Returns([assigned |-> AssignedFaceIds(call.args.mesh, call.args.groups,
                                             call.args.face_ids),
                resolved |-> StoredFaceIds(
                    _apply_plasticity_groups_and_normals(
                        call.args.mesh, call.args.groups, call.args.face_ids))])

SpecStored == InitStored /\ [][ApplyAndResolve]_vars

(***************************************************************************)
(* operators.py: the group cache of one mesh under handler rewrites and    *)
(* host undo/redo.  The handler pushes an undo step after every event      *)
(* (handler.py:350), so the host remembers the mesh as each rewrite left   *)
(* it, stored tables and version counter included; an undo or redo step    *)
(* puts the remembered datablock back at the address of the current one,   *)
(* so the cache key (the mesh pointer) and the mesh name stay the same.    *)
(***************************************************************************)
MaxUndoSteps == 3

CachePayloads == {CacheWhole, CacheHalves, PayloadBare}

\* the version a lookup compares: the stored counter, or the four lengths
\* when the mesh has none
CacheVersion(mesh) ==
    IF mesh.groups_version = 0
    THEN [lengths |-> <<Len(mesh.groups), Len(mesh.face_ids), Len(mesh.polys), Len(mesh.loops)>>]
    ELSE [token |-> mesh.groups_version]

\* the partition built from a face identity map: groups are numbered from 0
\* in the order their identity first appears, faces are numbered from 0
GroupPartition(face_id_by_face) ==
    LET identities == {face_id_by_face[f] : f \in DOMAIN face_id_by_face} \ {NoFaceId}
        FirstFace(id) == CHOOSE f \in DOMAIN face_id_by_face :
                            /\ face_id_by_face[f] = id
                            /\ \A g \in DOMAIN face_id_by_face :
                                  face_id_by_face[g] = id => f <= g
        group_idx(id) == Cardinality({o \in identities : FirstFace(o) < FirstFace(id)})
    IN [group_faces |->
           [g \in 1 .. Cardinality(identities) |->
               {f - 1 : f \in {x \in DOMAIN face_id_by_face :
                                  /\ face_id_by_face[x] # NoFaceId
                                  /\ group_idx(face_id_by_face[x]) = g - 1}}],
        face_to_group |->
           [f \in DOMAIN face_id_by_face |->
               IF face_id_by_face[f] = NoFaceId THEN -1
               ELSE group_idx(face_id_by_face[f])],
        group_count |-> Cardinality(identities)]

\* the entry a miss builds and stores
BuiltGroupCache(mesh) ==
    [version |-> CacheVersion(mesh),
     partition |-> GroupPartition(StoredFaceIds(mesh))]

\* the version test alone decides a hit
_get_group_cache_of(mesh, cache, same_version) ==
    IF Len(mesh.groups) = 0 \/ Len(mesh.face_ids) = 0 THEN Null
    ELSE IF cache # Null /\ same_version THEN cache
    ELSE BuiltGroupCache(mesh)

_get_group_cache ==
    /\ call' = [fn |-> "_get_group_cache", args |-> [mesh |-> group_mesh],
                returned |-> TRUE,
                ret |-> _get_group_cache_of(group_mesh, _PLASTICITY_GROUP_CACHE,
                           _PLASTICITY_GROUP_CACHE # Null
                             /\ _PLASTICITY_GROUP_CACHE.version = CacheVersion(group_mesh))]
    /\ _PLASTICITY_GROUP_CACHE' =
          IF call'.ret = Null THEN _PLASTICITY_GROUP_CACHE ELSE call'.ret
    /\ UNCHANGED <<group_mesh, undo_memory>>
    /\ UNCHANGED <<sceneVars, clientVars, historyVars, liveVars, presetVars, expandVars, editVars>>

\* an update event rewrites the mesh; the undo push that closes the event
\* drops the steps that could be redone and remembers the mesh
MeshRewrite(payload) ==
    /\ undo_memory.position < MaxUndoSteps
    /\ group_mesh' = __update_object_and_mesh(group_mesh, payload)
    /\ undo_memory' = [steps |-> Append(SubSeq(undo_memory.steps, 1, undo_memory.position),
                                        group_mesh'),
                       position |-> undo_memory.position + 1]
    /\ UNCHANGED <<_PLASTICITY_GROUP_CACHE, toolVars>>
    /\ UNCHANGED <<sceneVars, clientVars, historyVars, liveVars, presetVars, expandVars, editVars>>

MeshUndo ==
    /\ undo_memory.position > 1
    /\ undo_memory' = [undo_memory EXCEPT !.position = @ - 1]
    /\ group_mesh' = undo_memory.steps[undo_memory.position - 1]
    /\ UNCHANGED <<_PLASTICITY_GROUP_CACHE, toolVars>>
    /\ UNCHANGED <<sceneVars, clientVars, historyVars, liveVars, presetVars, expandVars, editVars>>

MeshRedo ==
    /\ undo_memory.position < Len(undo_memory.steps)
    /\ undo_memory' = [undo_memory EXCEPT !.position = @ + 1]
    /\ group_mesh' = undo_memory.steps[undo_memory.position + 1]
    /\ UNCHANGED <<_PLASTICITY_GROUP_CACHE, toolVars>>
    /\ UNCHANGED <<sceneVars, clientVars, historyVars, liveVars, presetVars, expandVars, editVars>>

NextCache ==
    \/ \E payload \in CachePayloads : MeshRewrite(payload)
    \/ MeshUndo
    \/ MeshRedo
    \/ _get_group_cache

SpecCache == Init /\ [][NextCache]_vars

(***************************************************************************)
(* operators.py: _live_expand_timer, the body of its loop for one edit     *)
(* object, on the mesh of 'Select same surface' above.  The poll runs with *)
(* Live Expand on, not suspended, in edit mode; the cylinder seam pass and *)
(* vertex adjacency are left off.  A poll reports whether it took the      *)
(* stability fast path, whether it wrote the face select flags and whether *)
(* it ran the seam merge pass.                                             *)
(***************************************************************************)
ExpandSettings == SelectSceneSettings

MergeSettings ==
    [merge_enabled : BOOLEAN, auto_cylinder_seam : {FALSE}, respect_seams : {TRUE}]

\* the faces the user clicks: one of a plain surface, the fillet strip, the
\* face outside every group
ExpandClicks == {1, 3, 5}

\* the faces of the groups seeded by the base selection and of their
\* neighbours that pass the fillet test
LiveExpandedFaces(base_selection, settings_signature) ==
    LET seed_group_indices ==
            {g \in DOMAIN SurfaceGroupFaces : SurfaceGroupFaces[g] \cap base_selection # {}}
        candidate_groups ==
            UNION {SurfaceAdjacency[g] : g \in seed_group_indices} \ seed_group_indices
        fillet_group_indices ==
            IF settings_signature.prop_plasticity_select_adjacent_fillets
            THEN {g \in candidate_groups :
                     is_fillet_group(g, SurfaceAreas, SurfaceAngles, SurfaceAdjacency,
                         settings_signature.prop_plasticity_select_fillet_min_curvature_angle,
                         settings_signature.prop_plasticity_select_fillet_max_area_ratio,
                         settings_signature.prop_plasticity_select_fillet_min_adjacent_groups)}
            ELSE {}
    IN UNION {SurfaceGroupFaces[g] : g \in seed_group_indices \cup fillet_group_indices}

\* variant "code" is the source; "keep_removed" leaves the removed faces in
\* the base, "keep_expanded" stores the old expanded selection
live_expand_object_with(entry, current_selection, settings_signature, merge_settings, variant) ==
    LET base_selection == IF entry.tracked THEN entry.base_selection ELSE current_selection
        expanded_selection == IF entry.tracked THEN entry.expanded_selection
                              ELSE current_selection
        manual_change == current_selection # expanded_selection
        added == current_selection \ expanded_selection
        removed == expanded_selection \ current_selection
        new_base == IF ~manual_change THEN base_selection
                    ELSE IF variant = "keep_removed" THEN base_selection \cup added
                    ELSE (base_selection \ removed) \cup added
        settings_changed == settings_signature # entry.last_settings
        merge_settings_changed == merge_settings # entry.last_merge_settings
        seeded == \E g \in DOMAIN SurfaceGroupFaces : SurfaceGroupFaces[g] \cap new_base # {}
        expanded_faces == IF seeded THEN LiveExpandedFaces(new_base, settings_signature)
                          ELSE current_selection
    IN IF ~manual_change /\ ~settings_changed /\ ~merge_settings_changed
       THEN [entry |-> [entry EXCEPT !.tracked = TRUE,
                                     !.base_selection = new_base,
                                     !.expanded_selection = expanded_selection],
             select |-> current_selection,
             fast_path |-> TRUE, wrote_selection |-> FALSE, seam_pass |-> FALSE]
       ELSE [entry |-> [tracked |-> TRUE,
                        base_selection |-> new_base,
                        expanded_selection |-> IF variant = "keep_expanded"
                                               THEN expanded_selection ELSE expanded_faces,
                        last_settings |-> settings_signature,
                        last_merge_settings |-> merge_settings],
             select |-> expanded_faces,
             fast_path |-> FALSE, wrote_selection |-> seeded,
             seam_pass |-> /\ merge_settings.merge_enabled
                           /\ (expanded_faces # expanded_selection \/ merge_settings_changed)]

live_expand_object_KeepRemoved(entry, current_selection, settings_signature, merge_settings) ==
    live_expand_object_with(entry, current_selection, settings_signature, merge_settings, "keep_removed")

live_expand_object_KeepExpanded(entry, current_selection, settings_signature, merge_settings) ==
    live_expand_object_with(entry, current_selection, settings_signature, merge_settings, "keep_expanded")

live_expand_object(entry, current_selection, settings_signature, merge_settings) ==
    live_expand_object_with(entry, current_selection, settings_signature, merge_settings, "code")

\* one poll of the timer over the edit object
LiveExpandPoll(settings_signature, merge_settings) ==
    /\ call' = [fn |-> "_live_expand_timer: object",
                args |-> [entry |-> live_expand_entry, current_selection |-> face_select,
                          settings_signature |-> settings_signature,
                          merge_settings |-> merge_settings],
                returned |-> TRUE,
                ret |-> live_expand_object(live_expand_entry, face_select,
                                           settings_signature, merge_settings)]
    /\ face_select' = call'.ret.select
    /\ live_expand_entry' = call'.ret.entry
    /\ UNCHANGED <<group_mesh, undo_memory, _PLASTICITY_GROUP_CACHE>>
    /\ UNCHANGED <<sceneVars, clientVars, historyVars, liveVars, presetVars, expandVars>>

\* the user clicks a face between two polls: its select flag flips
UserSelect(face) ==
    /\ face_select' = IF face \in face_select THEN face_select \ {face}
                      ELSE face_select \cup {face}
    /\ UNCHANGED <<group_mesh, undo_memory, _PLASTICITY_GROUP_CACHE, live_expand_entry>>
    /\ UNCHANGED <<sceneVars, clientVars, historyVars, liveVars, presetVars, toolVars, expandVars>>

NextExpand ==
    \/ \E face \in ExpandClicks : UserSelect(face)
    \/ \E settings_signature \in ExpandSettings, merge_settings \in MergeSettings :
          LiveExpandPoll(settings_signature, merge_settings)

SpecExpand == Init /\ [][NextExpand]_vars

(***************************************************************************)
(* operators.py: fillet absorption when seams are derived from the group   *)
(* boundaries.  Groups are numbered from 1; every group is curved enough   *)
(* to be a fillet, so the area ratio and the neighbour count decide.  The  *)
(* selected groups are the scope; no selection (None) is the scope of all  *)
(* groups, which the code below treats alike.  A set of small integers is  *)
(* iterated in ascending order.                                            *)
(***************************************************************************)
MaxMergeGroups == 4

MergeGroups == 1 .. MaxMergeGroups

MergeAreas == {5, 100}

\* symmetric adjacency without self-adjacency
MergeAdjacencies ==
    {adjacency \in [MergeGroups -> SUBSET MergeGroups] :
        \A g \in MergeGroups :
           /\ g \notin adjacency[g]
           /\ \A h \in adjacency[g] : g \in adjacency[h]}

\* the neighbour of largest area among candidates, the first one met winning
\* a tie; 0 when there is none
LargestOf(candidates, group_areas) ==
    IF candidates = {} THEN 0
    ELSE CHOOSE n \in candidates :
            \A o \in candidates :
               \/ group_areas[n] > group_areas[o]
               \/ group_areas[n] = group_areas[o] /\ n <= o

_pick_merge_neighbor(neighbors, group_areas, fillet_groups, allowed_groups) ==
    IF LargestOf((neighbors \ fillet_groups) \cap allowed_groups, group_areas) # 0
    THEN LargestOf((neighbors \ fillet_groups) \cap allowed_groups, group_areas)
    ELSE LargestOf(neighbors \cap allowed_groups, group_areas)

\* the while loop of _resolve_merge_targets
RECURSIVE FollowTargets(_, _, _)
FollowTargets(merge_targets, target, seen) ==
    IF target # merge_targets[target] /\ target \notin seen
    THEN FollowTargets(merge_targets, merge_targets[target], seen \cup {target})
    ELSE target

_resolve_merge_targets(merge_targets) ==
    [idx \in DOMAIN merge_targets |-> FollowTargets(merge_targets, merge_targets[idx], {})]

\* merge_targets before resolution: every fillet group of the scope that has
\* a neighbour to merge into is redirected to it
MergeTargets(adjacency, group_areas, selected_group_indices, max_area_ratio, min_adjacent_groups) ==
    LET fillet_groups ==
            {g \in selected_group_indices :
                is_fillet_group(g, group_areas, [h \in MergeGroups |-> 9000], adjacency,
                                500, max_area_ratio, min_adjacent_groups)}
        target(g) == _pick_merge_neighbor(adjacency[g], group_areas, fillet_groups,
                                          selected_group_indices)
    IN [g \in MergeGroups |->
          IF g \in fillet_groups /\ adjacency[g] # {} /\ target(g) # 0
          THEN target(g) ELSE g]

InitTargets ==
    /\ Connected
    /\ \E adjacency \in MergeAdjacencies, group_areas \in [MergeGroups -> MergeAreas],
          selected_group_indices \in SUBSET MergeGroups \ {{}} :
          call = Called("merge_fillets",
                        [adjacency |-> adjacency, group_areas |-> group_areas,
                         selected_group_indices |-> selected_group_indices,
                         max_area_ratio |-> 6, min_adjacent_groups |-> 2])

\* the merge_fillets branch: the targets picked, then resolved
ResolveMergeTargets ==
    /\ call.fn = "merge_fillets"
    /\ Returns([merge_targets |->
                    MergeTargets(call.args.adjacency, call.args.group_areas,
                                 call.args.selected_group_indices,
                                 call.args.max_area_ratio, call.args.min_adjacent_groups),
                resolved |->
                    _resolve_merge_targets(
                        MergeTargets(call.args.adjacency, call.args.group_areas,
                                     call.args.selected_group_indices,
                                     call.args.max_area_ratio,
                                     call.args.min_adjacent_groups))])

SpecTargets == InitTargets /\ [][ResolveMergeTargets]_vars

(* Properties of the scene handler.  In a step that handles an event the   *)
(* unprimed variables are the scene the handler found, last' is the event. *)
(***************************************************************************)
Handles(kind) == events' = events + 1 /\ last'.kind = kind

NodesOf(msg) == Range(msg.add \o msg.update)

\* the host objects / collections that carry an identity of a document
ObjectsOf(objs, filename, pid) ==
    {h \in Existing(objs) : objs[h].pid = pid /\ objs[h].filename = filename}

\* the host objects of an identity that are linked somewhere under the
\* document's Inbox
InboxObjectsOf(objs, colls, filename, pid) ==
    LET under == gather_collections(colls, {InboxOf(filename)})
    IN {h \in ObjectsOf(objs, filename, pid) : objs[h].links \cap under # {}}

IsMeshNode(node) == node.type = SOLID \/ node.type = SHEET

IsGroupNode(node) == node.type = GROUP /\ node.id > 0

\* what on_list deletes with no filter installed: the tracked identities the
\* response does not name
AbsentDeleted(msg) ==
    LET tables == __prepare(objects, collections, msg.filename)
    IN /\ \A id \in DOMAIN tables.ITEM \ all_items(msg) :
             objects'[tables.ITEM[id]] = Null
       /\ \A id \in DOMAIN tables.GROUP \ all_groups(msg) :
             collections'[tables.GROUP[id]] = Null

\* a node of the response has a host entity afterwards, the one it had when
\* it was tracked before
Retained(msg, node) ==
    LET tables == __prepare(objects, collections, msg.filename)
        scope == ScopeOf(node)
    IN IF node.id \in DOMAIN tables[scope]
       THEN IF scope = ITEM_SCOPE
            THEN /\ objects'[tables.ITEM[node.id]] # Null
                 /\ objects'[tables.ITEM[node.id]].pid = node.id
            ELSE /\ collections'[tables.GROUP[node.id]] # Null
                 /\ collections'[tables.GROUP[node.id]].pid = node.id
       ELSE IF scope = ITEM_SCOPE
            THEN ObjectsOf(objects', msg.filename, node.id) # {}
            ELSE ObjectsOf(collections', msg.filename, node.id) # {}

C2_FilterFrame ==
    [][(Handles("list") /\ selected_only) =>
          /\ \A h \in Existing(objects) :
                objects[h].pid \notin list_filter_ids.ids => objects'[h] = objects[h]
          /\ \A node \in NodesOf(last'.msg) :
                IsGroupNode(node) =>
                   \E c \in ObjectsOf(collections', last'.msg.filename, node.id) :
                      \/ node.parent_id = 0 /\ InboxOf(last'.msg.filename) \in collections'[c].parents
                      \/ \E g \in ObjectsOf(collections', last'.msg.filename, node.parent_id) :
                            g \in collections'[c].parents
                      \/ <<"parent", GROUP, node.id>> \in reported']_vars

\* C2 witness: a list response handled under the filter {1} that did not name
\* the tracked item 2, which still has its host object, and that named a group
C2_Witness ==
    /\ last.kind = "list" /\ ~last.filter.is_none /\ last.filter.ids = {1}
    /\ 2 \in last.before.ITEM /\ 2 \notin all_items(last.msg)
    /\ ObjectsOf(objects, last.msg.filename, 2) # {}
    /\ all_groups(last.msg) # {}

\* C7, as stated: every identity in the delete list of a live-link
\* transaction has its host entity removed, the host object when it names a
\* tracked ITEM and the host collection when it names a tracked GROUP; an
\* identity that names neither changes nothing and reports nothing
C7_Stated ==
    [][(Handles("transaction") /\ last'.msg.add = <<>> /\ last'.msg.update = <<>>) =>
          LET tables == __prepare(objects, collections, last'.msg.filename)
          IN \A id \in Range(last'.msg.delete) :
                /\ id \in DOMAIN tables.ITEM => objects'[tables.ITEM[id]] = Null
                /\ id \in DOMAIN tables.GROUP => collections'[tables.GROUP[id]] = Null
                /\ (id \notin DOMAIN tables.ITEM /\ id \notin DOMAIN tables.GROUP) =>
                      /\ objects' = objects /\ collections' = collections
                      /\ reported' = {}]_vars

\* C8: when a transaction is applied a second time in a row, each SOLID or
\* SHEET node whose host object the first application created, and which the
\* second finds under the Inbox, keeps its host object, whose mesh has the
\* same vertex positions, stored group table and stored face-identity table
\* as after the first application, and the Inbox still holds exactly one
\* host object of that identity, the same one
C8_ReplayStable ==
    [][(Handles("transaction") /\ last'.repeated) =>
          LET filename == last'.msg.filename
              tables == __prepare(objects, collections, filename)
              after == __prepare(objects', collections', filename)
          IN \A node \in NodesOf(last'.msg) :
                (/\ IsMeshNode(node)
                 /\ node.id \notin last.before.ITEM
                 /\ node.id \in DOMAIN tables.ITEM) =>
                   LET h == tables.ITEM[node.id]
                   IN /\ objects'[h] # Null
                      /\ objects'[h].mesh.verts = objects[h].mesh.verts
                      /\ objects'[h].mesh.groups = objects[h].mesh.groups
                      /\ objects'[h].mesh.face_ids = objects[h].mesh.face_ids
                      /\ objects'[h].mesh.groups_version = objects[h].mesh.groups_version + 1
                      /\ node.id \in DOMAIN after.ITEM /\ after.ITEM[node.id] = h
                      /\ InboxObjectsOf(objects, collections, filename, node.id) = {h}
                      /\ InboxObjectsOf(objects', collections', filename, node.id) = {h}]_vars

\* C8 witness: a transaction applied twice in a row whose solid, created by
\* the first application, carries the mesh the second application rewrote
C8_Witness ==
    /\ last.kind = "transaction" /\ last.repeated
    /\ \E node \in NodesOf(last.msg) :
          /\ node.type = SOLID /\ node.payload = PayloadDegenerate
          /\ \E h \in ObjectsOf(objects, last.msg.filename, node.id) :
                /\ objects[h].mesh.groups_version = 2
                /\ objects[h].mesh.face_ids = <<7>>

\* the nodes of the last event that the handler processed
ProcessedNodes ==
    {node \in NodesOf(last.msg) :
        \/ last.kind = "transaction"
        \/ last.kind = "list" /\ (last.filter.is_none \/ last.filter.ids = {}
                                     \/ node.type = GROUP
                                     \/ node.id \in last.filter.ids)}

\* the host entity a node of the last event has under the Inbox (0: none)
HostOf(node) ==
    Get(__prepare(objects, collections, last.msg.filename)[ScopeOf(node)], node.id)

FlagsApplied(node) ==
    LET h == HostOf(node)
        hide == is_hidden(node.flags) \/ ~is_visible(node.flags)
        hide_select == ~is_selectable(node.flags)
    IN IF node.type = GROUP
       THEN /\ collections[h].hide_viewport = hide
            /\ collections[h].hide_select = hide_select
       ELSE /\ objects[h].hide = hide
            /\ objects[h].hide_select = hide_select

\* C9, as stated: after an add, update or list transaction every resolved
\* node in it, host object or group collection, is hidden exactly when its
\* own flags have bit 0 set or bit 1 clear, and unselectable exactly when its
\* own flags have bit 2 clear
C9_Stated ==
    \A node \in ProcessedNodes : HostOf(node) # 0 => FlagsApplied(node)

\* a node of the last transaction that could not be resolved, itself or its parent
Unresolved(node) ==
    \/ <<"object", node.type, node.id>> \in reported
    \/ <<"parent", node.type, node.id>> \in reported

ParentOf(node) ==
    IF node.parent_id = 0 THEN InboxOf(last.msg.filename)
    ELSE Get(__prepare(objects, collections, last.msg.filename).GROUP, node.parent_id)

Parented(node) ==
    /\ HostOf(node) # 0
    /\ IF node.type = GROUP
       THEN ParentOf(node) \in collections[HostOf(node)].parents
       ELSE ParentOf(node) \in objects[HostOf(node)].links

\* C10, as stated: when a node of an add/update transaction names a parent
\* that cannot be resolved, or cannot be resolved itself, an error is reported
\* for it and it is skipped (it hangs under no collection), and every other
\* node of the transaction is created or updated, parented and flagged
C10_Stated ==
    (last.kind = "transaction" /\ \E bad \in NodesOf(last.msg) : Unresolved(bad)) =>
       \A node \in NodesOf(last.msg) :
          IF Unresolved(node)
          THEN HostOf(node) = 0
          ELSE Parented(node) /\ FlagsApplied(node)

\* C5, as stated: at most one refacet or list request is outstanding at any
\* time, and while a request is outstanding the busy flag is true and the
\* Refacet and Refresh commands are both disabled, whatever events arrived
C5_Stated ==
    /\ Len(pending) <= 1
    /\ pending # <<>> =>
          /\ plasticity_busy
          /\ ~ListButton_poll
          /\ \A selected_objects \in SUBSET Existing(objects) :
                ~RefacetButton_poll(selected_objects)

(***************************************************************************)
(* Properties of Live Refacet.  polls is the run of the timer so far: for  *)
(* each poll the signature it observed, whether it invoked the refacet     *)
(* command, and whether the client was connected with the busy flag clear. *)
(***************************************************************************)
Changing(k) == \A j \in 2 .. k : polls[j].signature # polls[j - 1].signature

\* C3: while Live Refacet runs in object mode, as long as every poll observed
\* a signature different from the one the poll before it observed, no poll
\* has invoked the refacet command
C3_NoFireWhileChanging ==
    \A k \in DOMAIN polls : Changing(k) => ~polls[k].invoked

\* C3 witness: a run of MaxPolls polls, each with a non-empty signature that
\* differs from the previous one, the client connected and not busy throughout
C3_Witness ==
    /\ Len(polls) = MaxPolls
    /\ Changing(MaxPolls)
    /\ \A k \in DOMAIN polls : polls[k].signature # Null /\ polls[k].ready

\* poll k observed the non-empty signature of the poll before it, the client
\* connected and the busy flag clear
Settled(k) ==
    /\ k >= 2
    /\ polls[k].signature # Null
    /\ polls[k].signature = polls[k - 1].signature
    /\ polls[k].ready

\* the first poll of the stretch of equal signatures that poll k belongs to
StretchStart(k) ==
    CHOOSE s \in 1 .. k :
       /\ \A j \in s .. k : polls[j].signature = polls[k].signature
       /\ s = 1 \/ polls[s - 1].signature # polls[k].signature

\* C4, as stated: once the same non-empty signature has been observed on two
\* consecutive polls, connected and not busy, the refacet command has been
\* invoked exactly once since that signature began to be observed
C4_Stated ==
    \A k \in DOMAIN polls :
       Settled(k) =>
          Cardinality({j \in StretchStart(k) .. k : polls[j].invoked}) = 1

\* the signature applied last before poll k and not forgotten since (a poll
\* that observes no selection forgets it)
AppliedBefore(k) ==
    LET fired == {j \in 1 .. (k - 1) :
                     /\ polls[j].invoked
                     /\ \A m \in (j + 1) .. (k - 1) : polls[m].signature # Null}
    IN IF fired = {} THEN Null
       ELSE polls[CHOOSE j \in fired : \A i \in fired : i <= j].signature

\* C4, amended: a poll invokes the refacet command exactly when it observes
\* the non-empty signature of the poll before it, the client connected and
\* the busy flag clear, and that signature is not the one applied last; so a
\* signature that settles is invoked once, and is not invoked again while it
\* stays the signature applied last
C4_SettledFiresOnce ==
    \A k \in DOMAIN polls :
       polls[k].invoked <=>
          (Settled(k) /\ polls[k].signature # AppliedBefore(k))

\* C4 witness: the second poll invoked the command for a settled signature
\* and the third poll, not busy any more, observed it again and did nothing
C4_Witness ==
    /\ Len(polls) >= 3
    /\ polls[2].invoked
    /\ polls[3].signature = polls[2].signature
    /\ polls[3].ready
    /\ ~polls[3].invoked

(***************************************************************************)
(* Properties of the preset file                                           *)
(***************************************************************************)
\* C6, as stated: after load_presets has read the file save_presets wrote,
\* the list has as many presets as the file has entries, and every preset
\* has, in every scalar field, exactly the value saved for it
C6_Stated ==
    (last.kind = "load_presets" /\ last.loaded.exists) =>
       /\ Len(refacet_presets) = Len(last.loaded.array)
       /\ \A k \in DOMAIN last.loaded.array :
             \A pair \in Range(last.loaded.array[k]) :
                refacet_presets[k][pair[1]] = pair[2]


(***************************************************************************)
(* C11                                                                     *)
(***************************************************************************)
\* the host objects of an identity that an event created
CreatedFor(filename, pid) ==
    {h \in ObjHandles : /\ objects[h] = Null /\ objects'[h] # Null
                        /\ objects'[h].pid = pid /\ objects'[h].filename = filename}

\* C11: under every interleaving of transactions and list responses with
\* host undo and redo steps, each SOLID or SHEET node that an event processes
\* creates exactly one new host object when no object of its identity is
\* under the document's Inbox when the event starts, and otherwise creates
\* none and rewrites the mesh of the object that is there, in place
C11_CreatesIffAbsent ==
    [][((Handles("transaction") \/ Handles("list")) /\ last'.msg.delete = <<>>) =>
          LET filename == last'.msg.filename
              processed == IF last'.kind = "list"
                           THEN Range(Filtered(last'.msg.add) \o Filtered(last'.msg.update))
                           ELSE NodesOf(last'.msg)
          IN \A node \in processed :
                IsMeshNode(node) =>
                   LET present == InboxObjectsOf(objects, collections, filename, node.id)
                   IN IF present = {}
                      THEN Cardinality(CreatedFor(filename, node.id)) = 1
                      ELSE /\ CreatedFor(filename, node.id) = {}
                           /\ \E h \in present :
                                 /\ objects'[h] # Null
                                 /\ objects'[h].pid = node.id
                                 /\ objects'[h].mesh = UpdatedMesh(objects[h].mesh, node.payload)]_vars

\* C11 witness: a transaction was applied twice in a row and its solid, which
\* hangs under the Inbox, was not there when the second application started
\* (its creation had been undone), and has a host object again
C11_Witness ==
    /\ last.kind = "transaction" /\ last.repeated
    /\ \E node \in NodesOf(last.msg) :
          /\ node.type = SOLID /\ node.parent_id = 0
          /\ node.id \notin last.before.ITEM
          /\ InboxObjectsOf(objects, collections, last.msg.filename, node.id) # {}

(***************************************************************************)
(* C12                                                                     *)
(***************************************************************************)
\* C12: after the seam merge rule has run on a face selection without
\* respecting existing seams, every edge with a selected linked face has its
\* seam flag clear exactly when all its linked faces are selected and it has
\* more than one linked face, and set otherwise; every edge without a
\* selected linked face has the seam flag it had
C12_SeamRule ==
    (/\ call.fn = "_auto_merge_seams_on_selection" /\ call.returned
     /\ ~call.args.respect_existing_seams) =>
       LET before == call.args.bm
           after == call.ret.bm
       IN \A e \in SeamEdges :
             IF before.link_faces[e] \cap before.select # {}
             THEN e \notin after.seam <=>
                     (/\ before.link_faces[e] \subseteq before.select
                      /\ Cardinality(before.link_faces[e]) > 1)
             ELSE e \in after.seam <=> e \in before.seam

\* C12 witness: the rule ran with faces 1, 2 and 4 selected on a mesh whose
\* seams were the edge those three faces share and the wire edge: it cleared
\* the shared edge, set the boundary edges of faces 1 and 4 and the edge
\* between faces 2 and 3, and left the wire edge and the far edge of face 3
C12_Witness ==
    /\ call.fn = "_auto_merge_seams_on_selection" /\ call.returned
    /\ ~call.args.respect_existing_seams
    /\ call.args.bm.select = {1, 2, 4}
    /\ call.args.bm.seam = {2, 6}
    /\ call.ret.bm.seam = {1, 3, 5, 6}
    /\ call.ret.changed_to_false = {2}

(***************************************************************************)
(* C13                                                                     *)
(***************************************************************************)
\* three candidates with vertices, no vertex of one closer than the
\* threshold to a vertex of another
ThreeApart ==
    /\ call.fn = "NonOverlappingMeshesMerger" /\ call.returned
    /\ Len(call.args.mesh_objects) = 3
    /\ \A i \in 1 .. 3 : call.args.mesh_objects[i] # {}
    /\ \A i, j \in 1 .. 3 :
          i # j => \A a \in call.args.mesh_objects[i], b \in call.args.mesh_objects[j] :
                      Dist(a, b) >= call.args.overlap_threshold

\* C13, as stated: given three mutually non-overlapping candidate meshes, the
\* first pass of the pair scan leaves a single object
C13_Stated == ThreeApart => Len(call.ret.passes[1]) = 1

\* C13, amended: given three mutually non-overlapping candidate meshes, the
\* command leaves a single object that has the vertices of all three; the
\* first pass of its pair scan joins the first two candidates only and
\* leaves two objects, and the second pass joins those
C13_RunMergesAll ==
    ThreeApart =>
       /\ call.ret.objects =
             <<call.args.mesh_objects[1] \cup call.args.mesh_objects[2]
                 \cup call.args.mesh_objects[3]>>
       /\ Len(call.ret.passes) = 2
       /\ call.ret.passes[1] =
             <<call.args.mesh_objects[1] \cup call.args.mesh_objects[2],
               call.args.mesh_objects[3]>>
       /\ Len(call.ret.passes[2]) = 1

\* C13 witness: the command ran on three single-vertex meshes at 0, 2 and 4
\* with threshold 2 and left one object
C13_Witness ==
    /\ ThreeApart
    /\ call.args.mesh_objects = <<{0}, {2}, {4}>>
    /\ call.args.overlap_threshold = 2
    /\ call.ret.objects = <<{0, 2, 4}>>

(***************************************************************************)
(* C14                                                                     *)
(***************************************************************************)
\* C14, as stated: when the command run with one of two mesh objects active
\* has selected the other, the command run with the other active and the
\* same threshold selects the first
C14_Stated ==
    (call.fn = "SimilarGeometrySelector" /\ call.returned) =>
       LET other == 3 - call.args.active
       IN other \in call.ret =>
             call.args.active \in
                SimilarGeometrySelector(call.args.objects, other, {},
                                        call.args.similarity_threshold)

\* a table whose groups tile slots 0 .. slot_count - 1 in order, given there
\* is at least one slot
RECURSIVE TilesFrom(_, _, _)
TilesFrom(groups, idx, next_start) ==
    IF idx >= Len(groups) THEN TRUE
    ELSE /\ groups[idx + 1] = next_start
         /\ groups[idx + 2] > 0
         /\ TilesFrom(groups, idx + 2, next_start + groups[idx + 2])

Tiles(groups, slot_count) ==
    /\ groups # <<>>
    /\ TilesFrom(groups, 0, 0)
    /\ GroupEnds(groups, 0, 0, 0).max_end = slot_count

RangesOfCall == _iter_group_ranges(call.args.groups, call.args.face_ids)

\* C15: when the group table tiles the polygons and not the loops the map
\* returned is the polygon-indexed map, when it tiles the loops and not the
\* polygons it is the loop-indexed map, and in both cases every polygon has
\* an identity; whatever the table, the map returned has at least as many
\* polygons with an identity as the polygon-indexed and the loop-indexed map.
C15_ValidBasis ==
    (call.fn = "_build_face_id_map" /\ call.returned) =>
       LET groups == call.args.groups
           mesh == call.args.mesh
           faces_valid == Tiles(groups, Len(mesh.polygons))
           loops_valid == Tiles(groups, mesh.loops)
       IN /\ (faces_valid /\ ~loops_valid) =>
                /\ call.ret = _build_face_id_map_faces(RangesOfCall, mesh)
                /\ _face_id_coverage(call.ret) = Len(mesh.polygons)
          /\ (loops_valid /\ ~faces_valid) =>
                /\ call.ret = _build_face_id_map_loops(RangesOfCall, mesh)
                /\ _face_id_coverage(call.ret) = Len(mesh.polygons)
          /\ _face_id_coverage(call.ret)
                >= _face_id_coverage(_build_face_id_map_faces(RangesOfCall, mesh))
          /\ _face_id_coverage(call.ret)
                >= _face_id_coverage(_build_face_id_map_loops(RangesOfCall, mesh))

\* C15 (witness): a table of two groups that tiles the seven loops of a
\* triangle and a quad has been resolved, and the two polygons carry the two
\* identities; the polygon-indexed map of that table is a different one.
C15_Witness ==
    /\ call.fn = "_build_face_id_map" /\ call.returned
    /\ call.args.groups = <<0, 3, 3, 4>>
    /\ call.args.mesh.loops = 7
    /\ call.ret = <<1, 2>>
    /\ _build_face_id_map_faces(RangesOfCall, call.args.mesh) # call.ret

\* C16: a group is accepted as a fillet exactly when its maximum curvature
\* angle is at least the minimum angle (equal is accepted, below is
\* rejected), it has at least the minimum number of adjacent groups, and its
\* area is at most max_area_ratio times the area of its largest neighbour
\* (equal is accepted, above is rejected), that largest area being positive.
C16_InclusiveThresholds ==
    (call.fn = "is_fillet_group" /\ call.returned) =>
       LET a == call.args
           neighbors == a.adjacency[a.group_id]
           largest == max_neighbor_area(a.group_areas, neighbors)
           angle_ok == a.group_max_angles[a.group_id] >= a.min_curvature_angle
           count_ok == Cardinality(neighbors) >= a.min_adjacent_groups
           area_ok == 100 * a.group_areas[a.group_id] <= a.max_area_ratio * largest
       IN /\ call.ret => (angle_ok /\ count_ok /\ area_ok)
          /\ (angle_ok /\ count_ok /\ area_ok /\ largest > 0) => call.ret

\* C16 (witness): a group whose angle equals the minimum angle and whose
\* area, 6, equals 0.06 times the area 100 of its largest neighbour has been
\* accepted.
C16_Witness ==
    /\ call.fn = "is_fillet_group" /\ call.returned /\ call.ret
    /\ call.args.group_max_angles[1] = call.args.min_curvature_angle
    /\ call.args.max_area_ratio = 6
    /\ call.args.group_areas[1] = 6
    /\ max_neighbor_area(call.args.group_areas, call.args.adjacency[1]) = 100

\* the settings a Refacet reads: the active preset's, the scene's without one
FacetSource ==
    IF Len(call.args.presets) > 0
    THEN [min_width |-> call.args.presets[1].min_width,
          min_width_enabled |-> call.args.presets[1].min_width_enabled,
          max_width |-> call.args.presets[1].max_width,
          max_width_enabled |-> call.args.presets[1].max_width_enabled,
          convex_ngons_only |-> call.args.presets[1].convex_ngons_only,
          curve_max_length_enabled |-> call.args.presets[1].curve_max_length_enabled,
          curve_max_length |-> call.args.presets[1].curve_max_length]
    ELSE [min_width |-> call.args.scene.prop_plasticity_facet_min_width,
          min_width_enabled |-> call.args.scene.prop_plasticity_facet_min_width_enabled,
          max_width |-> call.args.scene.prop_plasticity_facet_max_width,
          max_width_enabled |-> call.args.scene.prop_plasticity_facet_max_width_enabled,
          convex_ngons_only |-> call.args.scene.prop_plasticity_convex_ngons_only,
          curve_max_length_enabled |-> call.args.scene.prop_plasticity_curve_max_length_enabled,
          curve_max_length |-> call.args.scene.prop_plasticity_curve_max_length]

\* C17: with the advanced section hidden the Refacet command sends min
\* width, max width and curve chord max 0 and the shape CUT; with it shown,
\* min width is the setting when enabled and 0 otherwise, max width is 0
\* when disabled, min width when both are enabled and max width is the
\* smaller, and the setting otherwise; curve chord max is the curve max
\* length when that toggle is on, otherwise max width times sqrt(0.5) when
\* max width > 0 and 0 when not; the shape is CONVEX exactly when convex
\* ngons only is set and the maximum side count is above 4.
C17_ParameterResolution ==
    (call.fn = "RefacetParameters" /\ call.returned) =>
       LET s == FacetSource
           p == call.ret
       IN IF ~call.args.scene.prop_plasticity_ui_show_advanced_facet
          THEN /\ p.min_width = 0 /\ p.max_width = 0 /\ p.curve_chord_max = 0
               /\ p.shape = "CUT"
          ELSE /\ p.min_width = (IF s.min_width_enabled THEN s.min_width ELSE 0)
               /\ p.max_width =
                     (IF ~s.max_width_enabled THEN 0
                      ELSE IF s.min_width_enabled /\ s.max_width < s.min_width
                      THEN s.min_width ELSE s.max_width)
               /\ IF s.curve_max_length_enabled
                  THEN p.curve_chord_max = s.curve_max_length
                  ELSE IF p.max_width > 0
                  THEN /\ 2 * p.curve_chord_max * p.curve_chord_max
                             <= p.max_width * p.max_width
                       /\ p.max_width * p.max_width
                             < 2 * (p.curve_chord_max + 1) * (p.curve_chord_max + 1)
                  ELSE p.curve_chord_max = 0
               /\ (p.shape = "CONVEX") <=> (s.convex_ngons_only /\ p.max_sides > 4)
               /\ p.shape \in {"CONVEX", "CUT"}

\* C17 (witness): with the advanced section shown and both widths enabled,
\* min width 150 and max width 100, the command has sent max width 150 and
\* curve chord max 106, with the shape CONVEX for n-gons.
C17_Witness ==
    /\ call.fn = "RefacetParameters" /\ call.returned
    /\ call.args.scene.prop_plasticity_ui_show_advanced_facet
    /\ FacetSource.min_width_enabled /\ FacetSource.max_width_enabled
    /\ FacetSource.min_width = 150 /\ FacetSource.max_width = 100
    /\ call.ret.max_width = 150
    /\ call.ret.curve_chord_max = 106
    /\ call.ret.shape = "CONVEX"

\* a step that is a poll of the Live Refacet timer in the given mode, with
\* the given objects selected
RefacetPolls(mode, selected_objects) == _live_refacet_timer(mode, selected_objects)

\* a step that is a poll of the Live Expand timer
ExpandPolls == _LIVE_EXPAND_TIMER_RUNNING /\ call'.fn = "_live_expand_timer" /\ call' # call

\* C18 (as stated): a poll of Live Refacet unregisters the timer exactly when
\* the toggle is off, the mode is not object mode or no qualifying selection
\* exists, and a poll of Live Expand returns no interval exactly when the
\* toggle is off or the mode is not edit mode.
C18_Stated ==
    [][/\ \A mode \in Modes, selected_objects \in TimerSelections :
             RefacetPolls(mode, selected_objects) =>
                ((~_LIVE_REFACET_TIMER_RUNNING') <=>
                    \/ ~prop_plasticity_live_refacet
                    \/ mode # "OBJECT"
                    \/ _build_refacet_signature(selected_objects) = Null)
       /\ ExpandPolls =>
             ((call'.ret = "None") <=>
                 \/ ~prop_plasticity_live_expand
                 \/ call'.args.mode # "EDIT_MESH")]_vars

\* C18: a poll of Live Refacet unregisters the timer exactly when the toggle
\* is off or the mode is not object mode; a poll with no qualifying selection
\* forgets the observed and the applied signature and keeps the timer.  A
\* poll of Live Expand returns no interval, and the timer stops, exactly when
\* the toggle is off; outside edit mode it drops the tracked selections and
\* returns the next interval.
C18_StopsOnToggleOrMode ==
    [][/\ \A mode \in Modes, selected_objects \in TimerSelections :
             RefacetPolls(mode, selected_objects) =>
                /\ (~_LIVE_REFACET_TIMER_RUNNING') <=>
                      (~prop_plasticity_live_refacet \/ mode # "OBJECT")
                /\ (/\ prop_plasticity_live_refacet
                    /\ mode = "OBJECT"
                    /\ _build_refacet_signature(selected_objects) = Null)
                      => /\ _LIVE_REFACET_TIMER_RUNNING'
                         /\ _LIVE_REFACET_LAST_SIGNATURE' = Null
                         /\ _LIVE_REFACET_LAST_APPLIED_SIGNATURE' = Null
       /\ ExpandPolls =>
             /\ (call'.ret = "None") <=> ~prop_plasticity_live_expand
             /\ _LIVE_EXPAND_TIMER_RUNNING' <=> (call'.ret = "interval")
             /\ (/\ prop_plasticity_live_expand
                 /\ call'.args.mode # "EDIT_MESH"
                 /\ ~call'.args.suspended)
                   => /\ call'.ret = "interval"
                      /\ _LIVE_EXPAND_BASE_SELECTION' = {}]_vars

\* C18 (witness): both timers are still registered, Live Refacet after a
\* poll that found no qualifying selection and Live Expand after a poll in
\* object mode that returned the next interval.
C18_Witness ==
    /\ _LIVE_REFACET_TIMER_RUNNING
    /\ polls # <<>> /\ polls[Len(polls)].signature = Null
    /\ _LIVE_EXPAND_TIMER_RUNNING
    /\ prop_plasticity_live_expand
    /\ call.fn = "_live_expand_timer"
    /\ call.args.mode = "OBJECT" /\ ~call.args.suspended
    /\ call.ret = "interval"

\* C19: when 'Select same surface' ends cancelled (no groups, no face
\* identities, or no group selected after expansion) the scene's selection
\* and fillet settings and the face selection are what they were before.
C19_Stated ==
    (/\ call.fn = "SelectByFaceIDOperator" /\ call.returned
     /\ call.ret.result = "CANCELLED")
       => /\ call.ret.scene = call.args.scene
          /\ call.ret.selected = call.args.selected

\* C20: a list response is processed under the filter, or the absence of a
\* filter, that the Refresh command it answers installed, whatever other
\* Refresh command ran between that command and the response.
C20_Stated ==
    [][Handles("list") => last'.filter = Head(pending).filter]_vars

\* C21: a list response handled under the empty filter, the one a Refresh
\* with 'only selected' installs when no tagged object is selected, deletes
\* no host object and rewrites no item mesh.
C21_Stated ==
    [][(Handles("list") /\ ~list_filter_ids.is_none /\ list_filter_ids.ids = {}) =>
          \A h \in Existing(objects) :
             /\ objects'[h] # Null
             /\ objects'[h].mesh = objects[h].mesh]_vars

\* C22: an object found under the document's Inbox whose node, in a
\* transaction, names a parent that cannot be resolved is still under the
\* Inbox after the transaction, so that the next event finds it by identity.
C22_Stated ==
    [][Handles("transaction") =>
          \A node \in NodesOf(last'.msg) :
             (/\ IsMeshNode(node)
              /\ <<"parent", node.type, node.id>> \in reported') =>
                \A h \in InboxObjectsOf(objects, collections, last'.msg.filename, node.id) :
                   h \in InboxObjectsOf(objects', collections', last'.msg.filename, node.id)]_vars

\* C23: when an edit of the settings changes what the Refacet command would
\* send for the selection, it changes the Live Refacet signature too.
C23_Stated ==
    (call.fn = "_build_refacet_signature" /\ call.returned) =>
       (call.ret.sent_before # call.ret.sent_after
           => call.ret.signature_before # call.ret.signature_after)

\* C24: whenever the preset list is non-empty the active preset index is a
\* position of it, 0 .. length - 1.
C24_Stated ==
    Len(refacet_presets) > 0 =>
       /\ 0 <= active_refacet_preset_index
       /\ active_refacet_preset_index < Len(refacet_presets)

\* C25: reading the stored group table back through _build_face_id_map gives
\* each polygon the identity the handler assigned to it, and none to the
\* polygons the handler left without one.
C25_Stated ==
    (call.fn = "_apply_plasticity_groups_and_normals" /\ call.returned) =>
       call.ret.resolved = call.ret.assigned

\* C26: the partition a cache lookup returns is the one a fresh build from
\* the mesh's current group and face identity tables gives.
C26_Stated ==
    (call.fn = "_get_group_cache" /\ call.ret # Null) =>
       call.ret.partition = BuiltGroupCache(call.args.mesh).partition

\* C27: a poll that finds the live selection different from the last
\* expanded selection leaves as base the old base minus the faces removed
\* (expanded minus live) plus the faces added (live minus expanded); a poll
\* that finds them equal leaves the base as it was.
C27_BaseTracksManualChange ==
    (call.fn = "_live_expand_timer: object" /\ call.args.entry.tracked) =>
       live_expand_entry.base_selection =
          IF call.args.current_selection # call.args.entry.expanded_selection
          THEN (call.args.entry.base_selection
                  \ (call.args.entry.expanded_selection \ call.args.current_selection))
               \cup (call.args.current_selection \ call.args.entry.expanded_selection)
          ELSE call.args.entry.base_selection

\* C27 witness: a poll after the user both removed an expanded face that was
\* in the base and added a face outside the expanded selection
C27_Witness ==
    /\ call.fn = "_live_expand_timer: object"
    /\ call.args.entry.tracked
    /\ (call.args.entry.expanded_selection \ call.args.current_selection)
          \cap call.args.entry.base_selection # {}
    /\ call.args.current_selection \ call.args.entry.expanded_selection # {}
    /\ live_expand_entry.base_selection # call.args.entry.base_selection

\* C28: a poll that follows a poll which recomputed the selection, with the
\* face selection as that poll left it and the same expansion and merge
\* settings, takes the stability fast path: it writes no face select flag
\* and runs no seam merge pass.
C28_PollIsFixedPoint ==
    [][\A settings_signature \in ExpandSettings, merge_settings \in MergeSettings :
          (/\ LiveExpandPoll(settings_signature, merge_settings)
           /\ call.fn = "_live_expand_timer: object"
           /\ ~call.ret.fast_path
           /\ face_select = call.ret.select
           /\ settings_signature = call.args.settings_signature
           /\ merge_settings = call.args.merge_settings)
             => /\ call'.ret.fast_path
                /\ ~call'.ret.wrote_selection
                /\ ~call'.ret.seam_pass
                /\ face_select' = face_select]_vars

\* C28 witness: a fast-path poll over a selection that an earlier poll had
\* expanded beyond its base, with seam merging enabled
C28_Witness ==
    /\ call.fn = "_live_expand_timer: object"
    /\ call.ret.fast_path
    /\ call.args.merge_settings.merge_enabled
    /\ call.args.current_selection = call.args.entry.expanded_selection
    /\ call.args.entry.base_selection # {}
    /\ call.args.entry.base_selection # call.args.entry.expanded_selection
    /\ face_select = call.args.current_selection

\* the groups a group is redirected into, directly or through a chain
RECURSIVE RedirectedInto(_, _, _)
RedirectedInto(merge_targets, g, steps) ==
    IF steps = 0 THEN {}
    ELSE {merge_targets[g]}
           \cup RedirectedInto(merge_targets, merge_targets[g], steps - 1)

\* C29: resolution returns, and two groups of which one is redirected,
\* directly or through a chain, into the other resolve to the same target.
C29_Stated ==
    (call.fn = "merge_fillets" /\ call.returned) =>
       \A g \in DOMAIN call.ret.merge_targets :
          \A h \in RedirectedInto(call.ret.merge_targets, g, Len(call.ret.merge_targets)) :
             call.ret.resolved[g] = call.ret.resolved[h]

\* two meshes overlap when a vertex of one lies nearer than the threshold
\* to a vertex of the other
Overlapping(a, b, overlap_threshold) ==
    \E u \in a, v \in b : Dist(u, v) < overlap_threshold

\* C30: the pass loop returns after at most as many passes as there are
\* candidates, no pair it joined was a pair of overlapping objects, and the
\* objects left when it stops overlap pairwise.
C30_PassLoop ==
    (call.fn = "NonOverlappingMeshesMerger" /\ call.returned) =>
       /\ Len(call.ret.passes) <= Len(call.args.mesh_objects)
       /\ \A pair \in call.ret.joined :
             ~Overlapping(pair[1], pair[2], call.args.overlap_threshold)
       /\ \A i, j \in DOMAIN call.ret.objects :
             i # j => Overlapping(call.ret.objects[i], call.ret.objects[j],
                                  call.args.overlap_threshold)

\* C30 witness: a run of more than one pass that joined a pair and stopped
\* with two objects left, which overlap
C30_Witness ==
    /\ call.fn = "NonOverlappingMeshesMerger"
    /\ call.returned
    /\ Len(call.ret.passes) >= 2
    /\ call.ret.joined # {}
    /\ Len(call.ret.objects) = 2
=============================================================================
